---- MODULE Spec2Model ----
(***************************************************************************)
(* Model of the CDP WebSocket proxy of src/src/gateway/sync.ts: the chunk  *)
(* codec (messageToChunks / chunksToMessage), and the chunked bridge       *)
(* (initCDPProxy / bridgeWebSockets) with its keepalive timer.             *)
(*                                                                         *)
(* Bytes are integers 0..255, a chunk (Uint8Array) is a sequence of bytes, *)
(* a JavaScript string is a sequence of UTF-16 code units.                 *)
(***************************************************************************)
EXTENDS Integers, Sequences, FiniteSets, TLC

(***************************************************************************)
(* Constants of the chunking protocol (sync.ts:146-148).                   *)
(* MAX_MESSAGE_SIZE is 1048575 in the source; the model scales it down so  *)
(* that messages of a few bytes span several chunks.  Every definition     *)
(* below is written in terms of the three names, as the source is.         *)
(***************************************************************************)
HEADER_SIZE == 4

MAX_MESSAGE_SIZE == 6

FIRST_CHUNK_DATA_SIZE == MAX_MESSAGE_SIZE - HEADER_SIZE

(***************************************************************************)
(* Bounds of the model.                                                    *)
(***************************************************************************)
\* longest text message, in UTF-16 code units, of the codec harness
MaxMsgLen == 5

\* longest reassembly queue of the free decode harness
MaxQueue == 3

\* largest declared length, and longest payload, of a raw chunk
MaxDeclared == 2

MaxRawLen == 2

\* events of one bridged connection: client messages, backend frames, timer ticks
MaxClientMsgs == 1

MaxBrowserFrames == 2

MaxTicks == 2

\* client messages of one bridged connection when only the outbound
\* direction is driven
MaxOutboundMsgs == 2

\* backend frames of each pair when several pairs are bridged
MaxPoolFrames == 2

(***************************************************************************)
(* Helpers: arithmetic and sequences.                                      *)
(***************************************************************************)
Min(a, b) == IF a < b THEN a ELSE b

\* Array.prototype.slice / TypedArray.prototype.slice(from, to), 0-based,
\* end exclusive, clipped to the length.
Slice(s, from, to) == SubSeq(s, from + 1, Min(to, Len(s)))

RECURSIVE Flatten(_)
Flatten(ss) == IF ss = <<>> THEN <<>> ELSE Head(ss) \o Flatten(Tail(ss))

RECURSIVE SeqsUpTo(_, _)
SeqsUpTo(S, n) ==
  IF n = 0 THEN {<<>>}
  ELSE LET shorter == SeqsUpTo(S, n - 1)
       IN  shorter \cup {Append(s, x) : s \in {t \in shorter : Len(t) = n - 1}, x \in S}

(***************************************************************************)
(* TextEncoder.encode (sync.ts:154-155): UTF-16 code units to UTF-8 bytes. *)
(* A surrogate pair gives one 4-byte sequence, a lone surrogate is         *)
(* replaced by U+FFFD.                                                     *)
(***************************************************************************)
IsHighSurrogate(u) == u >= 55296 /\ u <= 56319
IsLowSurrogate(u)  == u >= 56320 /\ u <= 57343

Utf8Bytes(cp) ==
  IF cp < 128 THEN <<cp>>
  ELSE IF cp < 2048 THEN <<192 + (cp \div 64), 128 + (cp % 64)>>
  ELSE IF cp < 65536 THEN
    <<224 + (cp \div 4096), 128 + ((cp \div 64) % 64), 128 + (cp % 64)>>
  ELSE <<240 + (cp \div 262144), 128 + ((cp \div 4096) % 64),
         128 + ((cp \div 64) % 64), 128 + (cp % 64)>>

RECURSIVE EncodeFrom(_, _)
EncodeFrom(s, i) ==
  IF i > Len(s) THEN <<>>
  ELSE IF IsHighSurrogate(s[i]) /\ i < Len(s) /\ IsLowSurrogate(s[i + 1])
    THEN Utf8Bytes(65536 + (s[i] - 55296) * 1024 + (s[i + 1] - 56320))
           \o EncodeFrom(s, i + 2)
  ELSE IF IsHighSurrogate(s[i]) \/ IsLowSurrogate(s[i])
    THEN Utf8Bytes(65533) \o EncodeFrom(s, i + 1)
  ELSE Utf8Bytes(s[i]) \o EncodeFrom(s, i + 1)

TextEncode(s) == EncodeFrom(s, 1)

(***************************************************************************)
(* new TextDecoder().decode (sync.ts:202-203): the UTF-8 decoder of the    *)
(* Encoding standard with the default options: fatal = false (a malformed  *)
(* sequence gives U+FFFD) and ignoreBOM = false (a leading U+FEFF is       *)
(* removed from the output).                                               *)
(***************************************************************************)
CodeUnits(cp) ==
  IF cp < 65536 THEN <<cp>>
  ELSE <<55296 + ((cp - 65536) \div 1024), 56320 + ((cp - 65536) % 1024)>>

RECURSIVE DecodeFrom(_, _, _, _, _, _)
DecodeFrom(b, i, need, cp, lo, hi) ==
  IF i > Len(b) THEN (IF need # 0 THEN <<65533>> ELSE <<>>)
  ELSE LET byte == b[i] IN
    IF need = 0 THEN
      IF byte <= 127 THEN <<byte>> \o DecodeFrom(b, i + 1, 0, 0, 128, 191)
      ELSE IF byte >= 194 /\ byte <= 223
        THEN DecodeFrom(b, i + 1, 1, byte % 32, 128, 191)
      ELSE IF byte >= 224 /\ byte <= 239
        THEN DecodeFrom(b, i + 1, 2, byte % 16,
                        IF byte = 224 THEN 160 ELSE 128,
                        IF byte = 237 THEN 159 ELSE 191)
      ELSE IF byte >= 240 /\ byte <= 244
        THEN DecodeFrom(b, i + 1, 3, byte % 8,
                        IF byte = 240 THEN 144 ELSE 128,
                        IF byte = 244 THEN 143 ELSE 191)
      ELSE <<65533>> \o DecodeFrom(b, i + 1, 0, 0, 128, 191)
    ELSE IF byte < lo \/ byte > hi
      THEN <<65533>> \o DecodeFrom(b, i, 0, 0, 128, 191)
    ELSE LET cp2 == cp * 64 + (byte % 64) IN
      IF need = 1 THEN CodeUnits(cp2) \o DecodeFrom(b, i + 1, 0, 0, 128, 191)
      ELSE DecodeFrom(b, i + 1, need - 1, cp2, 128, 191)

TextDecode(b) ==
  LET s == DecodeFrom(b, 1, 0, 0, 128, 191)
  IN  IF s # <<>> /\ Head(s) = 65279 THEN Tail(s) ELSE s

(***************************************************************************)
(* DataView.setUint32(0, v, true) / getUint32(0, true): 4 bytes, unsigned, *)
(* little-endian (sync.ts:159-160, 180-181).  setUint32 stores v modulo    *)
(* 2^32; v is the UTF-8 length of a JavaScript string, which is below 2^32 *)
(* (a string holds fewer than 2^30 code units of at most 3 bytes each), so *)
(* the reduction never changes it and the four bytes are those of v.       *)
(***************************************************************************)
setUint32(v) ==
  <<v % 256, (v \div 256) % 256, (v \div 65536) % 256, (v \div 16777216) % 256>>

getUint32(chunk) ==
  chunk[1] + 256 * chunk[2] + 65536 * chunk[3] + 16777216 * chunk[4]

(***************************************************************************)
(* messageToChunks (sync.ts:153-168).                                      *)
(***************************************************************************)
\* lines 158-161: new Uint8Array(Math.min(MAX_MESSAGE_SIZE, HEADER_SIZE + n)),
\* the length written at offset 0, the first payload slice at HEADER_SIZE.
FirstChunk(encoded) ==
  LET size    == Min(MAX_MESSAGE_SIZE, HEADER_SIZE + Len(encoded))
      header  == setUint32(Len(encoded))
      payload == Slice(encoded, 0, FIRST_CHUNK_DATA_SIZE)
  IN  [k \in 1..size |-> IF k <= HEADER_SIZE THEN header[k]
                         ELSE payload[k - HEADER_SIZE]]

\* lines 164-166: for (i = FIRST_CHUNK_DATA_SIZE; i < n; i += MAX_MESSAGE_SIZE)
RECURSIVE RestChunks(_, _)
RestChunks(encoded, i) ==
  IF i < Len(encoded)
  THEN <<Slice(encoded, i, i + MAX_MESSAGE_SIZE)>>
         \o RestChunks(encoded, i + MAX_MESSAGE_SIZE)
  ELSE <<>>

\* Mutant: the loop advances by the first chunk's capacity, not by the chunk size.
RECURSIVE RestChunksShortStep(_, _)
RestChunksShortStep(encoded, i) ==
  IF i < Len(encoded)
  THEN <<Slice(encoded, i, i + MAX_MESSAGE_SIZE)>>
         \o RestChunksShortStep(encoded, i + FIRST_CHUNK_DATA_SIZE)
  ELSE <<>>

messageToChunksShortStep(data) ==
  LET encoded == TextEncode(data)
  IN  <<FirstChunk(encoded)>> \o RestChunksShortStep(encoded, FIRST_CHUNK_DATA_SIZE)

\* Mutant: the loop runs while i <= n, so a payload that ends exactly on a
\* chunk boundary gets an empty trailing chunk.
RECURSIVE RestChunksInclusive(_, _)
RestChunksInclusive(encoded, i) ==
  IF i <= Len(encoded)
  THEN <<Slice(encoded, i, i + MAX_MESSAGE_SIZE)>>
         \o RestChunksInclusive(encoded, i + MAX_MESSAGE_SIZE)
  ELSE <<>>

messageToChunksInclusive(data) ==
  LET encoded == TextEncode(data)
  IN  <<FirstChunk(encoded)>> \o RestChunksInclusive(encoded, FIRST_CHUNK_DATA_SIZE)

messageToChunks(data) ==
  LET encoded == TextEncode(data)
  IN  <<FirstChunk(encoded)>> \o RestChunks(encoded, FIRST_CHUNK_DATA_SIZE)

(***************************************************************************)
(* chunksToMessage (sync.ts:173-207).  The function returns a string or    *)
(* null, or throws, and splices the queue it is given; the model returns   *)
(* the three together: kind is "null", "msg", "overflow" (the Error of     *)
(* line 189) or "range" (getUint32 on a first chunk shorter than 4 bytes   *)
(* throws a RangeError at line 181), val the string and chunks the queue   *)
(* after the call.                                                         *)
(***************************************************************************)
Outcome(kind, val, chunks) == [kind |-> kind, val |-> val, chunks |-> chunks]

\* lines 192-203: splice(0, i + 1), strip the header of the first chunk,
\* copy the chunks into one array of expectedBytes bytes, decode it.
Combine(chunks, i) ==
  LET chunksToCombine == [SubSeq(chunks, 1, i) EXCEPT ![1] = Slice(chunks[1], HEADER_SIZE, Len(chunks[1]))]
  IN  TextDecode(Flatten(chunksToCombine))

\* lines 184-206: the loop; i is the 1-based index of the chunk looked at and
\* totalBytes the tally before it is added.
RECURSIVE WalkChunks(_, _, _, _)
WalkChunks(chunks, expectedBytes, i, totalBytes) ==
  IF i > Len(chunks) THEN Outcome("null", <<>>, chunks)
  ELSE LET total == totalBytes + Len(chunks[i]) IN
    IF total > expectedBytes THEN Outcome("overflow", <<>>, chunks)
    ELSE IF total = expectedBytes
      THEN Outcome("msg", Combine(chunks, i), SubSeq(chunks, i + 1, Len(chunks)))
    ELSE WalkChunks(chunks, expectedBytes, i + 1, total)

\* Mutant: no overflow check; a tally that reaches or passes the declared
\* length completes the message, truncated to the declared length.
RECURSIVE WalkChunksTruncating(_, _, _, _)
WalkChunksTruncating(chunks, expectedBytes, i, totalBytes) ==
  IF i > Len(chunks) THEN Outcome("null", <<>>, chunks)
  ELSE LET total == totalBytes + Len(chunks[i]) IN
    IF total >= expectedBytes
      THEN Outcome("msg",
                   TextDecode(SubSeq(Flatten(SubSeq(chunks, 1, i)),
                                     HEADER_SIZE + 1, HEADER_SIZE + expectedBytes)),
                   SubSeq(chunks, i + 1, Len(chunks)))
    ELSE WalkChunksTruncating(chunks, expectedBytes, i + 1, total)

chunksToMessageTruncating(chunks) ==
  IF Len(chunks) = 0 THEN Outcome("null", <<>>, chunks)
  ELSE IF Len(chunks[1]) < HEADER_SIZE THEN Outcome("range", <<>>, chunks)
  ELSE WalkChunksTruncating(chunks, getUint32(chunks[1]), 1, -HEADER_SIZE)

\* Mutant: the tally starts at 0, so the header bytes count as payload.
chunksToMessageHeaderCounted(chunks) ==
  IF Len(chunks) = 0 THEN Outcome("null", <<>>, chunks)
  ELSE IF Len(chunks[1]) < HEADER_SIZE THEN Outcome("range", <<>>, chunks)
  ELSE WalkChunks(chunks, getUint32(chunks[1]), 1, 0)

\* Mutant: slice instead of splice; the consumed chunks stay in the queue.
chunksToMessageNoSplice(chunks) ==
  IF Len(chunks) = 0 THEN Outcome("null", <<>>, chunks)
  ELSE IF Len(chunks[1]) < HEADER_SIZE THEN Outcome("range", <<>>, chunks)
  ELSE LET r == WalkChunks(chunks, getUint32(chunks[1]), 1, -HEADER_SIZE)
       IN  Outcome(r.kind, r.val, chunks)

chunksToMessage(chunks) ==
  IF Len(chunks) = 0 THEN Outcome("null", <<>>, chunks)
  ELSE IF Len(chunks[1]) < HEADER_SIZE THEN Outcome("range", <<>>, chunks)
  ELSE WalkChunks(chunks, getUint32(chunks[1]), 1, -HEADER_SIZE)

(***************************************************************************)
(* State.                                                                  *)
(*                                                                         *)
(* Codec harness: the two pure functions applied to inputs drawn from      *)
(* bounded sets.  harness is "roundtrip" (the chunks of one message are    *)
(* appended one by one to an empty queue, chunksToMessage called after     *)
(* each append, as the browser message handler does), "free" (any chunk    *)
(* may be appended and chunksToMessage called at any time) or "off".       *)
(***************************************************************************)
VARIABLES
  harness,   \* "roundtrip" | "free" | "off"
  msg,       \* roundtrip: the text message
  fed,       \* roundtrip: number of chunks of messageToChunks(msg) appended
  results,   \* roundtrip: what chunksToMessage gave after each append
  queue,     \* the reassembly queue handed to chunksToMessage
  pre,       \* the queue as it was when chunksToMessage was last called
  last       \* outcome of the last chunksToMessage call, kind "none" before

codecVars == <<harness, msg, fed, results, queue, pre, last>>

(***************************************************************************)
(* Chunked bridge: one connection served by cdp.get('/') (sync.ts:431-447),*)
(* initCDPProxy (354-372) and bridgeWebSockets (253-349).                  *)
(*                                                                         *)
(* A handle's ready-state is "open", "closing" (close() was called on it   *)
(* and its close event is still to come) or "closed" (its close or error   *)
(* event was dispatched); browserWs is "none" until connectToBrowser       *)
(* returns it.  send() delivers a frame only on an open handle and throws  *)
(* otherwise; close() with a code the WebSocket API refuses throws and     *)
(* leaves the handle as it is.                                             *)
(***************************************************************************)
VARIABLES
  pc,             \* initCDPProxy: "acquiring" | "dialing" | "bridging" | "failed"
  clientWs,       \* ready-state of the client-facing handle (server of the pair)
  browserWs,      \* ready-state of the backend handle
  browserChunks,  \* the reassembly buffer (line 258)
  pingInterval,   \* "set" | "null" (line 259)
  toBrowser,      \* frames delivered by browserWs.send, in order
  toClient,       \* frames delivered by clientWs.send, in order
  clientCloses,   \* clientWs.close(code, reason) calls, in order
  browserCloses,  \* browserWs.close(code, reason) calls, in order
  cleared,        \* number of clearInterval calls
  clientIn,       \* history: client message events handled, in order
  browserIn,      \* history: backend message events handled, in order
  ticks,          \* history: number of timer callbacks run
  tornDown,       \* history: a close or error handler of the pair has run
  overflowed,     \* history: chunksToMessage threw the overflow error
  sessionId,      \* initCDPProxy: the id acquireSession returned, or "null"
  initError,      \* initCDPProxy: err.message of the caught error, or "null"
  acquires,       \* history: number of acquireSession calls
  dials,          \* history: the session ids connectToBrowser was called with
  clientEvent,    \* history: the close or error event clientWs delivered
  browserEvent    \* history: the close or error event browserWs delivered

bridgeVars == <<pc, clientWs, browserWs, browserChunks, pingInterval, toBrowser,
                toClient, clientCloses, browserCloses, cleared, clientIn,
                browserIn, ticks, tornDown, overflowed, sessionId, initError,
                acquires, dials, clientEvent, browserEvent>>

initVars == <<sessionId, initError, acquires, dials>>

(***************************************************************************)
(* State of the generic relay (src/index.ts, lines 360-507): the           *)
(* client-facing handle serverWs and the container's handle containerWs,   *)
(* both accepted, with message, close and error handlers on each.          *)
(***************************************************************************)
VARIABLES
  serverWs,         \* ready-state of the client-facing handle
  containerWs,      \* ready-state of the container's handle
  host,             \* url.host of the request
  serverCloses,     \* serverWs.close(code, reason) calls, in order
  containerCloses,  \* containerWs.close(code, reason) calls, in order
  serverEvent,      \* history: the close or error event serverWs delivered
  containerEvent,   \* history: the close or error event containerWs delivered
  toContainer,      \* frames delivered by containerWs.send, in order
  toServer,         \* frames delivered by serverWs.send, in order
  serverIn,         \* history: serverWs message events handled, in order
  containerIn       \* history: containerWs message events handled, in order

relayMsgVars == <<toContainer, toServer, serverIn, containerIn>>

relayVars == <<serverWs, containerWs, host, serverCloses, containerCloses,
               serverEvent, containerEvent, relayMsgVars>>

(***************************************************************************)
(* State of one call of timingSafeEqual (src/gateway/sync.ts, lines        *)
(* 377-387), and of one request on its way through fetch (src/index.ts,    *)
(* lines 596-614) and the middleware and routes of the app (131-507).      *)
(***************************************************************************)
VARIABLES
  comparison,  \* timingSafeEqual: a, b, position pc, i, result, steps, verdict
  stage,       \* the handler the request is at, "off" | "fetch" | ... | "done"
  inbound,     \* history: the request as fetch received it
  request,     \* the request as it is handed on (c.req.raw)
  env,         \* the bindings: MOLTBOT_GATEWAY_TOKEN, CDP_SECRET, BROWSER, ...
  accessUser,  \* c.get('accessUser') is set
  response,    \* the response returned, kind "none" before
  backend      \* what was started behind the worker, kind "none" before

(***************************************************************************)
(* The scheduled handler and syncToR2 (src/index.ts, lines 514-594;        *)
(* src/gateway/sync.ts, lines 29-125), and the state of the sandbox they   *)
(* act on.                                                                 *)
(***************************************************************************)
VARIABLES
  cronPc,         \* the await the scheduled handler is at, "off" | ... | "done"
  sandbox,        \* the instance id scheduled gave to getSandbox, "null" before
  storage,        \* the bindings R2_ACCESS_KEY_ID, R2_SECRET_ACCESS_KEY, CF_ACCOUNT_ID
  files,          \* the sandbox: which of openclaw.json and clawdbot.json exist
  lastSyncFile,   \* the bucket: the content of .last-sync, absent when there is none
  gatewayProcess, \* what findExistingMoltbotProcess returned, "unknown" before
  health,         \* the health request: kind "none", "threw", or "body" with the body
  needsRestart,   \* the local of scheduled
  cronCalls,      \* history: ensureMoltbotGateway and syncToR2, as they were called
  mounted,        \* what mountR2Storage returned, "unknown" before
  configDir,      \* the local of syncToR2
  chain,          \* history: the chain ran, and how many of its commands succeeded
  returned        \* what syncToR2 returned, kind "none" before

(***************************************************************************)
(* Several chunked pairs of one isolate (src/gateway/sync.ts, lines        *)
(* 253-372): every call of bridgeWebSockets has its own handles, buffer    *)
(* and timer.                                                              *)
(***************************************************************************)
VARIABLES
  pairs,          \* pair -> its handles, session id, buffer, timer and frames
  issued,         \* session ids the session endpoint has handed out
  dialled         \* history: the session ids the backend was dialled with

compareVars == <<comparison>>

requestVars == <<stage, inbound, request, env, accessUser, response, backend>>

cronVars ==
  <<cronPc, sandbox, storage, files, lastSyncFile, gatewayProcess, health,
    needsRestart, cronCalls, mounted, configDir, chain, returned>>

poolVars == <<pairs, issued, dialled>>

httpVars == <<compareVars, requestVars, cronVars, poolVars>>

vars == <<codecVars, bridgeVars, relayVars, httpVars>>

\* A header, a query parameter or a binding that may be missing.
Absent == [has |-> FALSE, v |-> <<>>]

Present(v) == [has |-> TRUE, v |-> v]

NoRequest ==
  [method |-> "none", host |-> <<>>, path |-> <<>>,
   searchParams |-> [token |-> Absent, secret |-> Absent],
   headers |-> [Upgrade |-> Absent, Connection |-> Absent,
                SecWebSocketKey |-> Absent, Cookie |-> Absent],
   body |-> "null"]

NoEnv ==
  [MOLTBOT_GATEWAY_TOKEN |-> Absent, CDP_SECRET |-> Absent, BROWSER |-> FALSE,
   DEV_MODE |-> FALSE, DEBUG_ROUTES |-> FALSE, required |-> FALSE]

NoBody == [error |-> <<>>, hint |-> <<>>, webSocketDebuggerUrl |-> <<>>]

NoResponse == [kind |-> "none", status |-> 0, body |-> NoBody]

NoBackend == [kind |-> "none", request |-> NoRequest]

RequestOff ==
  /\ stage = "off"
  /\ inbound = NoRequest
  /\ request = NoRequest
  /\ env = NoEnv
  /\ accessUser = FALSE
  /\ response = NoResponse
  /\ backend = NoBackend

CompareOff ==
  comparison = [pc |-> "off", a |-> <<>>, b |-> <<>>, i |-> 0, result |-> 0,
                steps |-> 0, verdict |-> FALSE]

NoStorage ==
  [R2_ACCESS_KEY_ID |-> Absent, R2_SECRET_ACCESS_KEY |-> Absent,
   CF_ACCOUNT_ID |-> Absent]

NoFiles == [openclaw |-> FALSE, clawdbot |-> FALSE]

NoChain == [ran |-> FALSE, done |-> 0]

NoResult ==
  [kind |-> "none", success |-> FALSE, lastSync |-> <<>>, error |-> <<>>]

CronOff ==
  /\ cronPc = "off"
  /\ sandbox = "null"
  /\ storage = NoStorage
  /\ files = NoFiles
  /\ lastSyncFile = Absent
  /\ gatewayProcess = "unknown"
  /\ health = [kind |-> "none", body |-> <<>>]
  /\ needsRestart = FALSE
  /\ cronCalls = <<>>
  /\ mounted = "unknown"
  /\ configDir = "null"
  /\ chain = NoChain
  /\ returned = NoResult

PoolOff ==
  /\ pairs = <<>>
  /\ issued = 0
  /\ dialled = <<>>


\* The last event of a handle: none so far, a close with its code and
\* reason, or an error.
NoEvent == [kind |-> "none", code |-> 0, reason |-> <<>>]

ErrorEvent == [kind |-> "error", code |-> 0, reason |-> <<>>]

CloseEvent(ev) == [kind |-> "close", code |-> ev.code, reason |-> ev.reason]

RelayOff ==
  /\ serverWs = "none"
  /\ containerWs = "none"
  /\ host = <<>>
  /\ serverCloses = <<>>
  /\ containerCloses = <<>>
  /\ serverEvent = NoEvent
  /\ containerEvent = NoEvent
  /\ toContainer = <<>>
  /\ toServer = <<>>
  /\ serverIn = <<>>
  /\ containerIn = <<>>

BridgeOff ==
  /\ pc = "off"
  /\ clientWs = "none"
  /\ browserWs = "none"
  /\ browserChunks = <<>>
  /\ pingInterval = "null"
  /\ toBrowser = <<>>
  /\ toClient = <<>>
  /\ clientCloses = <<>>
  /\ browserCloses = <<>>
  /\ cleared = 0
  /\ clientIn = <<>>
  /\ browserIn = <<>>
  /\ ticks = 0
  /\ tornDown = FALSE
  /\ overflowed = FALSE
  /\ sessionId = "null"
  /\ initError = "null"
  /\ acquires = 0
  /\ dials = <<>>
  /\ clientEvent = NoEvent
  /\ browserEvent = NoEvent

\* Text messages: an ASCII letter (1 byte), U+00E9 (2 bytes) and U+FEFF
\* (3 bytes).  A WebSocket text frame is valid UTF-8, so event.data never
\* holds a lone surrogate.
MsgUnits == {97, 233, 65279}

Messages == SeqsUpTo(MsgUnits, MaxMsgLen)

\* Raw chunks of the free harness: header chunks declaring 0..MaxDeclared
\* bytes and carrying a payload of "b"s, and headerless chunks of "a"s,
\* the empty chunk included.
RawChunks ==
  {setUint32(n) \o p : n \in 0..MaxDeclared, p \in SeqsUpTo({98}, MaxRawLen)}
    \cup SeqsUpTo({97}, MaxRawLen)

NoOutcome == Outcome("none", <<>>, <<>>)

InitCodec ==
  /\ harness \in {"roundtrip", "free"}
  /\ msg \in (IF harness = "roundtrip" THEN Messages ELSE {<<>>})
  /\ BridgeOff
  /\ RelayOff
  /\ fed = 0
  /\ results = <<>>
  /\ queue = <<>>
  /\ pre = <<>>
  /\ last = NoOutcome
  /\ CompareOff
  /\ RequestOff
  /\ CronOff
  /\ PoolOff

\* roundtrip: browserChunks.push(chunk); chunksToMessage(browserChunks)
\* (sync.ts:295-296) for the next chunk of messageToChunks(msg).
FeedChunk ==
  /\ harness = "roundtrip"
  /\ fed < Len(messageToChunks(msg))
  /\ LET pushed == Append(queue, messageToChunks(msg)[fed + 1])
         r      == chunksToMessage(pushed)
     IN  /\ pre' = pushed
         /\ last' = r
         /\ queue' = r.chunks
         /\ results' = Append(results, [kind |-> r.kind, val |-> r.val])
  /\ fed' = fed + 1
  /\ UNCHANGED <<harness, msg, bridgeVars, relayVars, httpVars>>

\* free: chunks.push(c) for any raw chunk c.
PushChunk ==
  /\ harness = "free"
  /\ Len(queue) < MaxQueue
  /\ \E c \in RawChunks : queue' = Append(queue, c)
  /\ pre' = <<>>
  /\ last' = NoOutcome
  /\ UNCHANGED <<harness, msg, fed, results, bridgeVars, relayVars, httpVars>>

\* free: one call of chunksToMessage on the queue.
Decode ==
  /\ harness = "free"
  /\ LET r == chunksToMessage(queue)
     IN  /\ pre' = queue
         /\ last' = r
         /\ queue' = r.chunks
  /\ UNCHANGED <<harness, msg, fed, results, bridgeVars, relayVars, httpVars>>

NextCodec == FeedChunk \/ PushChunk \/ Decode

SpecCodec == InitCodec /\ [][NextCodec]_vars

(***************************************************************************)
(* Claims about the chunk codec, checked under SpecCodec.                  *)
(***************************************************************************)
Null == [kind |-> "null", val |-> <<>>]

\* payload bytes (header excluded) of the first i chunks of a queue
RECURSIVE PayloadUpTo(_, _)
PayloadUpTo(q, i) ==
  IF i = 0 THEN -HEADER_SIZE ELSE Len(q[i]) + PayloadUpTo(q, i - 1)

CeilDiv(a, b) == (a + b - 1) \div b

\* C1: round trip.  Once every chunk of messageToChunks(msg) has been appended
\* to an empty queue, chunksToMessage being called after each append, the calls
\* gave "no message" for every append but the last and exactly msg on the last.
RoundTrip ==
  (harness = "roundtrip" /\ fed = Len(messageToChunks(msg)))
    => results = [i \in 1..fed |-> IF i < fed THEN Null
                                   ELSE [kind |-> "msg", val |-> msg]]

\* The round trip restricted to the messages that do not begin with U+FEFF.
RoundTripWithoutLeadingBOM ==
  (harness = "roundtrip" /\ fed = Len(messageToChunks(msg))
     /\ (msg = <<>> \/ Head(msg) # 65279))
    => results = [i \in 1..fed |-> IF i < fed THEN Null
                                   ELSE [kind |-> "msg", val |-> msg]]

\* C2: encode framing.  The first chunk is the 4-byte little-endian length L of
\* the encoded message followed by its first min(L, MAX_MESSAGE_SIZE - 4) bytes;
\* chunk k >= 2 is the headerless slice of up to MAX_MESSAGE_SIZE bytes that
\* follows; the payloads concatenated in order are the encoded message.
EncodeFraming ==
  harness = "roundtrip" =>
    LET encoded == TextEncode(msg)
        L       == Len(encoded)
        cs      == messageToChunks(msg)
        first   == Min(L, MAX_MESSAGE_SIZE - 4)
    IN  /\ Len(cs) >= 1
        /\ Len(cs[1]) = 4 + first
        /\ \A k \in 1..4 : cs[1][k] = (L \div (256 ^ (k - 1))) % 256
        /\ SubSeq(cs[1], 5, Len(cs[1])) = SubSeq(encoded, 1, first)
        /\ \A k \in 2..Len(cs) :
             cs[k] = SubSeq(encoded, first + (k - 2) * MAX_MESSAGE_SIZE + 1,
                            Min(L, first + (k - 1) * MAX_MESSAGE_SIZE))
        /\ SubSeq(cs[1], 5, Len(cs[1])) \o Flatten(Tail(cs)) = encoded

\* a message of at least three chunks whose last chunk is a remainder
EncodeFramingWitness ==
  /\ harness = "roundtrip"
  /\ fed = Len(messageToChunks(msg))
  /\ fed >= 3
  /\ Len(messageToChunks(msg)[fed]) < MAX_MESSAGE_SIZE

\* C3: chunk size ceiling.  No chunk is longer than MAX_MESSAGE_SIZE and none is
\* empty; a message with L + 4 <= MAX_MESSAGE_SIZE is one chunk, a longer one
\* 1 + ceil((L - (MAX_MESSAGE_SIZE - 4)) / MAX_MESSAGE_SIZE) chunks.
ChunkSizeCeiling ==
  harness = "roundtrip" =>
    LET L  == Len(TextEncode(msg))
        cs == messageToChunks(msg)
    IN  /\ \A k \in 1..Len(cs) : Len(cs[k]) >= 1 /\ Len(cs[k]) <= MAX_MESSAGE_SIZE
        /\ (L + 4 <= MAX_MESSAGE_SIZE) => Len(cs) = 1
        /\ (L + 4 > MAX_MESSAGE_SIZE) =>
             Len(cs) = 1 + CeilDiv(L - (MAX_MESSAGE_SIZE - 4), MAX_MESSAGE_SIZE)

\* a message that fills its chunks exactly: the first chunk and one more
ChunkSizeCeilingWitness ==
  /\ harness = "roundtrip"
  /\ Len(TextEncode(msg)) = FIRST_CHUNK_DATA_SIZE + MAX_MESSAGE_SIZE
  /\ fed = 2

\* C4: declared-length enforcement.  When the running payload total of the
\* queue, walked from the front, passes the declared length without having
\* equalled it, chunksToMessage throws the protocol-violation error and gives
\* no message.
Overflows(q) ==
  /\ Len(q) >= 1
  /\ Len(q[1]) >= HEADER_SIZE
  /\ \E i \in 1..Len(q) :
       /\ PayloadUpTo(q, i) > getUint32(q[1])
       /\ \A j \in 1..(i - 1) : PayloadUpTo(q, j) # getUint32(q[1])

DeclaredLengthEnforced ==
  (last.kind # "none" /\ Overflows(pre))
    => (last.kind = "overflow" /\ last.val = <<>>)

\* an overflow found at the second chunk or later
DeclaredLengthWitness ==
  /\ last.kind = "overflow"
  /\ Len(pre) >= 2
  /\ PayloadUpTo(pre, 1) < getUint32(pre[1])

\* C5: partial buffering.  For a message of more than one chunk, every call
\* after a strict prefix of its chunks gives "no message yet"; the call after
\* the last chunk gives the one message, made of all its bytes in order, and
\* leaves the queue empty.
PartialBuffering ==
  (harness = "roundtrip" /\ Len(messageToChunks(msg)) > 1) =>
    LET n == Len(messageToChunks(msg))
    IN  /\ \A i \in 1..fed : i < n => results[i] = Null
        /\ fed < n => queue = SubSeq(messageToChunks(msg), 1, fed)
        /\ fed = n =>
             /\ results[n] = [kind |-> "msg", val |-> TextDecode(TextEncode(msg))]
             /\ queue = <<>>

PartialBufferingWitness ==
  /\ harness = "roundtrip"
  /\ Len(messageToChunks(msg)) >= 3
  /\ fed = Len(messageToChunks(msg))
  /\ results[fed].kind = "msg"

\* C6: decode consumption.  A call that gives "no message yet" leaves the queue
\* as it was; a call that gives a message removes the chunks from index 0
\* through the completing index and leaves the later chunks, in order.
DecodeConsumption ==
  /\ last.kind = "null" => queue = pre
  /\ last.kind = "msg" =>
       \E i \in 1..Len(pre) :
         /\ PayloadUpTo(pre, i) = getUint32(pre[1])
         /\ \A j \in 1..(i - 1) : PayloadUpTo(pre, j) < getUint32(pre[1])
         /\ queue = SubSeq(pre, i + 1, Len(pre))

\* a message completed by the first chunk with two different chunks left over,
\* and a "no message yet" on a queue of two chunks
DecodeConsumptionWitness ==
  /\ last.kind = "msg"
  /\ Len(queue) = 2
  /\ queue[1] # queue[2]

(***************************************************************************)
(* Strings of the close path.  A string is the sequence of its UTF-16 code *)
(* units, as in TextEncode; the literals of the source are written out     *)
(* unit by unit.                                                           *)
(***************************************************************************)
\* a close reason a peer may give: 'bye'
ByeReason ==
  <<98, 121, 101>>

\* 'Client error' (sync.ts line 323, index.ts line 492)
ClientErrorReason ==
  <<67, 108, 105, 101, 110, 116, 32, 101, 114, 114, 111, 114>>

\* 'Browser error' (sync.ts line 345)
BrowserErrorReason ==
  <<66, 114, 111, 119, 115, 101, 114, 32, 101, 114, 114, 111, 114>>

\* 'Failed to acquire browser session: ' (line 224)
FailedToAcquire ==
  <<70, 97, 105, 108, 101, 100, 32, 116, 111, 32, 97, 99, 113, 117, 105,
    114, 101, 32, 98, 114, 111, 119, 115, 101, 114, 32, 115, 101, 115,
    115, 105, 111, 110, 58, 32>>

\* ': ' (line 224)
StatusSeparator ==
  <<58, 32>>

\* 'WebSocket upgrade failed - no webSocket in response' (line 243)
UpgradeFailed ==
  <<87, 101, 98, 83, 111, 99, 107, 101, 116, 32, 117, 112, 103, 114, 97,
    100, 101, 32, 102, 97, 105, 108, 101, 100, 32, 45, 32, 110, 111, 32,
    119, 101, 98, 83, 111, 99, 107, 101, 116, 32, 105, 110, 32, 114, 101,
    115, 112, 111, 110, 115, 101>>

\* 'Failed to initialize browser session' (lines 370, 441)
FailedToInitialize ==
  <<70, 97, 105, 108, 101, 100, 32, 116, 111, 32, 105, 110, 105, 116, 105,
    97, 108, 105, 122, 101, 32, 98, 114, 111, 119, 115, 101, 114, 32, 115,
    101, 115, 115, 105, 111, 110>>

\* String(status) of a 500 response
Status500 ==
  <<53, 48, 48>>

\* String(status) of a 429 response
Status429 ==
  <<52, 50, 57>>

\* a short response body: 'error'
ShortBody ==
  <<101, 114, 114, 111, 114>>

\* a JSON error body of 112 bytes:
\* {"success":false,"errors":[{"code":2001,"message":"Rate limi
\* t exceeded: too many concurrent browser sessions"}]}
JsonErrorBody ==
  <<123, 34, 115, 117, 99, 99, 101, 115, 115, 34, 58, 102, 97, 108, 115,
    101, 44, 34, 101, 114, 114, 111, 114, 115, 34, 58, 91, 123, 34, 99,
    111, 100, 101, 34, 58, 50, 48, 48, 49, 44, 34, 109, 101, 115, 115, 97,
    103, 101, 34, 58, 34, 82, 97, 116, 101, 32, 108, 105, 109, 105, 116,
    32, 101, 120, 99, 101, 101, 100, 101, 100, 58, 32, 116, 111, 111, 32,
    109, 97, 110, 121, 32, 99, 111, 110, 99, 117, 114, 114, 101, 110, 116,
    32, 98, 114, 111, 119, 115, 101, 114, 32, 115, 101, 115, 115, 105,
    111, 110, 115, 34, 125, 93, 125>>

\* The responses of the session endpoint that acquireSession rejects
\* (status !== 200, line 223), as the pair String(status), text.
FailedAcquisitions ==
  {[status |-> Status500, text |-> ShortBody],
   [status |-> Status429, text |-> JsonErrorBody]}

\* `Failed to acquire browser session: ${status}: ${text}` (line 224)
AcquireErrorMessage(res) ==
  FailedToAcquire \o res.status \o StatusSeparator \o res.text

\* The WebSocket protocol carries at most 123 bytes of UTF-8 as the reason of
\* a close frame (a control frame has 125 bytes of payload, 2 of them the code).
MaxReasonBytes == 123

\* The number of bytes TextEncode yields for unit i of str: the two units of
\* a surrogate pair share the 4 bytes of their code point, a lone surrogate
\* becomes U+FFFD.
UnitBytes(str, i) ==
  IF IsHighSurrogate(str[i])
  THEN (IF i < Len(str) /\ IsLowSurrogate(str[i + 1]) THEN 4 ELSE 3)
  ELSE IF IsLowSurrogate(str[i])
  THEN (IF i > 1 /\ IsHighSurrogate(str[i - 1]) THEN 0 ELSE 3)
  ELSE Len(Utf8Bytes(str[i]))

RECURSIVE BytesBetween(_, _, _)
BytesBetween(str, lo, hi) ==
  IF lo > hi THEN 0
  ELSE IF lo = hi THEN UnitBytes(str, lo)
  ELSE BytesBetween(str, lo, (lo + hi) \div 2)
         + BytesBetween(str, (lo + hi) \div 2 + 1, hi)

\* The length in bytes of the UTF-8 encoding of str, Len(TextEncode(str)),
\* summed by halves.
ByteLength(str) == BytesBetween(str, 1, Len(str))

(***************************************************************************)
(* The chunked bridge.                                                     *)
(***************************************************************************)
\* Text messages a client sends: the empty message, a one-chunk message and a
\* message of two chunks.
BridgeMsgs == {<<>>, <<97>>, <<65279, 97>>}

TextFrame(data) == [kind |-> "text", data |-> data]

BinaryFrame(data) == [kind |-> "binary", data |-> data]

\* What a client may send: a text frame, or a binary frame.
ClientFrames == {TextFrame(m) : m \in BridgeMsgs} \cup {BinaryFrame(<<97>>)}

\* What the backend may send: binary frames, each a chunk of the encoding of
\* some message, in any order (so streams that overflow the declared length,
\* or start with a headerless chunk, are among them).
BrowserFrames ==
  UNION {{messageToChunks(m)[k] : k \in 1..Len(messageToChunks(m))} : m \in BridgeMsgs}

\* Close events: a normal closure, and an abnormal one (code 1006, empty reason).
CloseEvents ==
  {[code |-> 1000, reason |-> ByeReason], [code |-> 1006, reason |-> <<>>]}

\* browserWs.send('ping') (line 264): the text frame "ping"
Ping == TextFrame(<<112, 105, 110, 103>>)

\* WebSocket.send: the frame is delivered on an open handle; on any other the
\* call throws, and every call site catches it.
send(ws, log, frame) == IF ws = "open" THEN Append(log, frame) ELSE log

RECURSIVE sendAll(_, _, _)
sendAll(ws, log, frames) ==
  IF frames = <<>> THEN log
  ELSE sendAll(ws, send(ws, log, Head(frames)), Tail(frames))

\* WebSocket.close(code, reason): the API refuses the reserved codes (1004,
\* 1005, 1006, 1015 and anything outside 1000..4999) by throwing; a close of a
\* handle that is not open changes nothing.
ValidCloseCode(code) ==
  code >= 1000 /\ code < 5000 /\ code \notin {1004, 1005, 1006, 1015}

close(ws, code) == IF ws = "open" /\ ValidCloseCode(code) THEN "closing" ELSE ws

CloseCall(code, reason) == [code |-> code, reason |-> reason]

Init ==
  /\ harness = "off"
  /\ msg = <<>>
  /\ fed = 0
  /\ results = <<>>
  /\ queue = <<>>
  /\ pre = <<>>
  /\ last = NoOutcome
  /\ CompareOff
  /\ RequestOff
  /\ CronOff
  /\ PoolOff
  /\ pc = "acquiring"
  /\ clientWs = "open"
  /\ browserWs = "none"
  /\ browserChunks = <<>>
  /\ pingInterval = "null"
  /\ toBrowser = <<>>
  /\ toClient = <<>>
  /\ clientCloses = <<>>
  /\ browserCloses = <<>>
  /\ cleared = 0
  /\ clientIn = <<>>
  /\ browserIn = <<>>
  /\ ticks = 0
  /\ tornDown = FALSE
  /\ overflowed = FALSE
  /\ sessionId = "null"
  /\ initError = "null"
  /\ acquires = 0
  /\ dials = <<>>
  /\ clientEvent = NoEvent
  /\ browserEvent = NoEvent
  /\ RelayOff

\* The session ids the session endpoint hands out.
SessionIds == {"session-1"}

\* initCDPProxy, catch (lines 368-371): clientWs.close(1011, err.message).
\* The WebSocket standard has close() throw a SyntaxError for a reason longer
\* than 123 bytes, and not every runtime enforces it: for such a reason both
\* outcomes are possible.  When the call throws, the promise of initCDPProxy
\* rejects and the route's catch (lines 439-442) closes the handle with the
\* fixed reason.
initFailed(detail) ==
  /\ pc' = "failed"
  /\ initError' = detail
  /\ \E threw \in (IF ByteLength(detail) > MaxReasonBytes THEN BOOLEAN ELSE {FALSE}) :
       clientCloses' = IF threw
                       THEN clientCloses \o <<CloseCall(1011, detail),
                                              CloseCall(1011, FailedToInitialize)>>
                       ELSE Append(clientCloses, CloseCall(1011, detail))
  /\ clientWs' = close(clientWs, 1011)
  /\ UNCHANGED <<browserWs, browserChunks, pingInterval, toBrowser, toClient,
                 browserCloses, cleared, clientIn, browserIn, ticks, tornDown,
                 overflowed, sessionId, codecVars, httpVars, relayVars, clientEvent, browserEvent>>

\* acquireSession (lines 212-229) returns a session id
AcquireOk ==
  /\ pc = "acquiring"
  /\ pc' = "dialing"
  /\ acquires' = acquires + 1
  /\ \E id \in SessionIds : sessionId' = id
  /\ UNCHANGED <<clientWs, browserWs, browserChunks, pingInterval, toBrowser,
                 toClient, clientCloses, browserCloses, cleared, clientIn,
                 browserIn, ticks, tornDown, overflowed, initError, dials,
                 codecVars, httpVars, relayVars, clientEvent, browserEvent>>

\* acquireSession throws: status !== 200 (line 223)
AcquireFail ==
  /\ pc = "acquiring"
  /\ acquires' = acquires + 1
  /\ \E res \in FailedAcquisitions : initFailed(AcquireErrorMessage(res))
  /\ UNCHANGED dials

\* connectToBrowser throws: no webSocket in the response (line 242)
DialFail ==
  /\ pc = "dialing"
  /\ dials' = Append(dials, sessionId)
  /\ initFailed(UpgradeFailed)
  /\ UNCHANGED acquires

\* Mutant: the backend is dialled without the acquired session id.
DialOkUnacquired ==
  /\ pc = "dialing"
  /\ pc' = "bridging"
  /\ dials' = Append(dials, "null")
  /\ browserWs' = "open"
  /\ browserChunks' = <<>>
  /\ pingInterval' = "set"
  /\ UNCHANGED <<clientWs, toBrowser, toClient, clientCloses, browserCloses,
                 cleared, clientIn, browserIn, ticks, tornDown, overflowed,
                 sessionId, initError, acquires, codecVars, httpVars, relayVars, clientEvent, browserEvent>>

\* connectToBrowser (lines 234-248) returns the accepted backend handle and
\* bridgeWebSockets (lines 253-349) runs: the buffer is created, the timer
\* started and the eight handlers registered.
DialOk ==
  /\ pc = "dialing"
  /\ pc' = "bridging"
  /\ dials' = Append(dials, sessionId)
  /\ browserWs' = "open"
  /\ browserChunks' = <<>>
  /\ pingInterval' = "set"
  /\ UNCHANGED <<clientWs, toBrowser, toClient, clientCloses, browserCloses,
                 cleared, clientIn, browserIn, ticks, tornDown, overflowed,
                 sessionId, initError, acquires, codecVars, httpVars, relayVars, clientEvent, browserEvent>>

\* The client goes away while no handler is registered on its handle (the
\* session is being acquired, the backend dialled, or initialization failed):
\* the close event is dispatched to nobody.
ClientCloseUnwired ==
  /\ pc \in {"acquiring", "dialing", "failed"}
  /\ clientWs \in {"open", "closing"}
  /\ clientWs' = "closed"
  /\ UNCHANGED <<pc, browserWs, browserChunks, pingInterval, toBrowser, toClient,
                 clientCloses, browserCloses, cleared, clientIn, browserIn,
                 ticks, tornDown, overflowed, codecVars, httpVars, initVars, relayVars, clientEvent, browserEvent>>

\* Mutant: a ping whose send throws cancels the timer.
pingTickFatal ==
  /\ pingInterval = "set"
  /\ ticks < MaxTicks
  /\ ticks' = ticks + 1
  /\ \E threw \in BOOLEAN :
       IF threw
       THEN /\ toBrowser' = toBrowser
            /\ pingInterval' = "null"
            /\ cleared' = cleared + 1
       ELSE /\ toBrowser' = send(browserWs, toBrowser, Ping)
            /\ UNCHANGED <<pingInterval, cleared>>
  /\ UNCHANGED <<pc, clientWs, browserWs, browserChunks, toClient,
                 clientCloses, browserCloses, clientIn, browserIn,
                 tornDown, overflowed, codecVars, httpVars, initVars, relayVars, clientEvent, browserEvent>>

\* the timer callback (lines 262-268): try { browserWs.send('ping') } catch {
\* log }.  send throws on a handle that is not open, and on one whose
\* connection broke before its close or error event was dispatched: whether
\* the call throws is the environment's choice.
pingTick ==
  /\ pingInterval = "set"
  /\ ticks < MaxTicks
  /\ ticks' = ticks + 1
  /\ \E threw \in BOOLEAN :
       toBrowser' = IF threw THEN toBrowser ELSE send(browserWs, toBrowser, Ping)
  /\ UNCHANGED <<pc, clientWs, browserWs, browserChunks, pingInterval, toClient,
                 clientCloses, browserCloses, cleared, clientIn, browserIn,
                 tornDown, overflowed, codecVars, httpVars, initVars, relayVars, clientEvent, browserEvent>>

\* Mutant: cleanup clears the interval without looking at pingInterval.
cleanupUnguarded == pingInterval' = "null" /\ cleared' = cleared + 1

\* Mutant: cleanup forgets the timer.
cleanupForgets == UNCHANGED <<pingInterval, cleared>>

\* cleanup (lines 270-275)
cleanup ==
  IF pingInterval = "set"
  THEN pingInterval' = "null" /\ cleared' = cleared + 1
  ELSE UNCHANGED <<pingInterval, cleared>>

\* Mutant: the original text frame is sent ahead of its chunks.
onClientMessageAlsoText(f) ==
  /\ clientIn' = Append(clientIn, [frame |-> f, open |-> browserWs = "open"])
  /\ toBrowser' = IF f.kind = "text"
                  THEN sendAll(browserWs, toBrowser, <<f>> \o
                         [k \in 1..Len(messageToChunks(f.data)) |->
                            BinaryFrame(messageToChunks(f.data)[k])])
                  ELSE toBrowser
  /\ UNCHANGED <<pc, clientWs, browserWs, browserChunks, pingInterval, toClient,
                 clientCloses, browserCloses, cleared, browserIn, ticks,
                 tornDown, overflowed, codecVars, httpVars, initVars, relayVars, clientEvent, browserEvent>>

\* Mutant: the loop yields between sends, so a due timer callback runs after
\* the first chunk of a message of several chunks.
onClientMessageYielding(f) ==
  /\ clientIn' = Append(clientIn, [frame |-> f, open |-> browserWs = "open"])
  /\ toBrowser' = IF f.kind = "text"
                  THEN LET cs == [k \in 1..Len(messageToChunks(f.data)) |->
                                    BinaryFrame(messageToChunks(f.data)[k])]
                       IN  IF Len(cs) >= 2 /\ pingInterval = "set"
                           THEN sendAll(browserWs, toBrowser,
                                        <<cs[1], Ping>> \o Tail(cs))
                           ELSE sendAll(browserWs, toBrowser, cs)
                  ELSE toBrowser
  /\ UNCHANGED <<pc, clientWs, browserWs, browserChunks, pingInterval, toClient,
                 clientCloses, browserCloses, cleared, browserIn, ticks,
                 tornDown, overflowed, codecVars, httpVars, initVars, relayVars, clientEvent, browserEvent>>

\* client message handler (lines 278-290).  event.data of a binary frame is an
\* ArrayBuffer: message.substring throws and the catch logs it.
onClientMessage(f) ==
  /\ clientIn' = Append(clientIn, [frame |-> f, open |-> browserWs = "open"])
  /\ toBrowser' = IF f.kind = "text"
                  THEN sendAll(browserWs, toBrowser,
                         [k \in 1..Len(messageToChunks(f.data)) |->
                            BinaryFrame(messageToChunks(f.data)[k])])
                  ELSE toBrowser
  /\ UNCHANGED <<pc, clientWs, browserWs, browserChunks, pingInterval, toClient,
                 clientCloses, browserCloses, cleared, browserIn, ticks,
                 tornDown, overflowed, codecVars, httpVars, initVars, relayVars, clientEvent, browserEvent>>

\* Mutant: a frame that does not complete a message is passed on as it is.
onBrowserMessagePartial(f) ==
  LET r == chunksToMessage(Append(browserChunks, f.data))
  IN  /\ browserIn' = Append(browserIn, f)
      /\ browserChunks' = r.chunks
      /\ overflowed' = (overflowed \/ r.kind = "overflow")
      /\ toClient' = IF r.kind = "msg" /\ r.val # <<>>
                     THEN send(clientWs, toClient, TextFrame(r.val))
                     ELSE send(clientWs, toClient, f)
      /\ UNCHANGED <<pc, clientWs, browserWs, pingInterval, toBrowser,
                     clientCloses, browserCloses, cleared, clientIn, ticks,
                     tornDown, codecVars, httpVars, initVars, relayVars, clientEvent, browserEvent>>

\* Mutant: the decoder's splice is lost; the pushed chunk stays in the buffer
\* after the message it completes was handed on.
onBrowserMessageKeeps(f) ==
  LET r == chunksToMessage(Append(browserChunks, f.data))
  IN  /\ browserIn' = Append(browserIn, f)
      /\ browserChunks' = Append(browserChunks, f.data)
      /\ overflowed' = (overflowed \/ r.kind = "overflow")
      /\ toClient' = IF r.kind = "msg" /\ r.val # <<>>
                     THEN send(clientWs, toClient, TextFrame(r.val))
                     ELSE toClient
      /\ UNCHANGED <<pc, clientWs, browserWs, pingInterval, toBrowser,
                     clientCloses, browserCloses, cleared, clientIn, ticks,
                     tornDown, codecVars, httpVars, initVars, relayVars, clientEvent, browserEvent>>

\* backend message handler (lines 293-304): push, decode, and send the message
\* if it is truthy (a non-empty string); a throw of chunksToMessage or of send
\* is caught and logged, the pushed chunk staying in the buffer.
onBrowserMessage(f) ==
  LET r == chunksToMessage(Append(browserChunks, f.data))
  IN  /\ browserIn' = Append(browserIn, f)
      /\ browserChunks' = r.chunks
      /\ overflowed' = (overflowed \/ r.kind = "overflow")
      /\ toClient' = IF r.kind = "msg" /\ r.val # <<>>
                     THEN send(clientWs, toClient, TextFrame(r.val))
                     ELSE toClient
      /\ UNCHANGED <<pc, clientWs, browserWs, pingInterval, toBrowser,
                     clientCloses, browserCloses, cleared, clientIn, ticks,
                     tornDown, codecVars, httpVars, initVars, relayVars, clientEvent, browserEvent>>

\* client close handler (lines 307-315)
onClientClose(ev) ==
  /\ cleanup
  /\ browserCloses' = Append(browserCloses, CloseCall(ev.code, ev.reason))
  /\ browserWs' = close(browserWs, ev.code)
  /\ tornDown' = TRUE

\* client error handler (lines 318-326)
onClientError ==
  /\ cleanup
  /\ browserCloses' = Append(browserCloses, CloseCall(1011, ClientErrorReason))
  /\ browserWs' = close(browserWs, 1011)
  /\ tornDown' = TRUE

\* backend close handler (lines 329-337)
onBrowserClose(ev) ==
  /\ cleanup
  /\ clientCloses' = Append(clientCloses, CloseCall(ev.code, ev.reason))
  /\ clientWs' = close(clientWs, ev.code)
  /\ tornDown' = TRUE

\* backend error handler (lines 340-348)
onBrowserError ==
  /\ cleanup
  /\ clientCloses' = Append(clientCloses, CloseCall(1011, BrowserErrorReason))
  /\ clientWs' = close(clientWs, 1011)
  /\ tornDown' = TRUE

(***************************************************************************)
(* Events of the bridged pair.  A handle that is open or closing may       *)
(* deliver a message, and delivers one last event, a close or an error,    *)
(* after which it is closed.                                               *)
(***************************************************************************)
ClientMessage ==
  /\ pc = "bridging"
  /\ clientWs \in {"open", "closing"}
  /\ Len(clientIn) < MaxClientMsgs
  /\ \E f \in ClientFrames : onClientMessage(f)

BrowserMessage ==
  /\ pc = "bridging"
  /\ browserWs \in {"open", "closing"}
  /\ Len(browserIn) < MaxBrowserFrames
  /\ \E d \in BrowserFrames : onBrowserMessage(BinaryFrame(d))

ClientClose ==
  /\ pc = "bridging"
  /\ clientWs \in {"open", "closing"}
  /\ \E ev \in CloseEvents : onClientClose(ev) /\ clientEvent' = CloseEvent(ev)
  /\ clientWs' = "closed"
  /\ UNCHANGED <<pc, browserChunks, toBrowser, toClient, clientCloses, clientIn,
                 browserIn, ticks, overflowed, codecVars, httpVars, initVars, relayVars,
                 browserEvent>>

ClientError ==
  /\ pc = "bridging"
  /\ clientWs \in {"open", "closing"}
  /\ onClientError
  /\ clientEvent' = ErrorEvent
  /\ clientWs' = "closed"
  /\ UNCHANGED <<pc, browserChunks, toBrowser, toClient, clientCloses, clientIn,
                 browserIn, ticks, overflowed, codecVars, httpVars, initVars, relayVars,
                 browserEvent>>

BrowserClose ==
  /\ pc = "bridging"
  /\ browserWs \in {"open", "closing"}
  /\ \E ev \in CloseEvents : onBrowserClose(ev) /\ browserEvent' = CloseEvent(ev)
  /\ browserWs' = "closed"
  /\ UNCHANGED <<pc, browserChunks, toBrowser, toClient, browserCloses, clientIn,
                 browserIn, ticks, overflowed, codecVars, httpVars, initVars, relayVars,
                 clientEvent>>

BrowserError ==
  /\ pc = "bridging"
  /\ browserWs \in {"open", "closing"}
  /\ onBrowserError
  /\ browserEvent' = ErrorEvent
  /\ browserWs' = "closed"
  /\ UNCHANGED <<pc, browserChunks, toBrowser, toClient, browserCloses, clientIn,
                 browserIn, ticks, overflowed, codecVars, httpVars, initVars, relayVars,
                 clientEvent>>

Next ==
  \/ AcquireOk
  \/ AcquireFail
  \/ DialOk
  \/ DialFail
  \/ ClientCloseUnwired
  \/ pingTick
  \/ ClientMessage
  \/ BrowserMessage
  \/ ClientClose
  \/ ClientError
  \/ BrowserClose
  \/ BrowserError

Spec == Init /\ [][Next]_vars

\* The outbound direction alone: a pair is wired, then client messages and
\* timer callbacks are handled in any order, each handler running to its end
\* before the next event is dispatched.
ClientBurst ==
  /\ pc = "bridging"
  /\ clientWs \in {"open", "closing"}
  /\ Len(clientIn) < MaxOutboundMsgs
  /\ \E f \in ClientFrames : onClientMessage(f)

NextOutbound ==
  \/ AcquireOk
  \/ DialOk
  \/ pingTick
  \/ ClientBurst

SpecOutbound == Init /\ [][NextOutbound]_vars

(***************************************************************************)
(* The generic relay (src/index.ts): the error-message transform and the   *)
(* close and error handlers of the relayed pair.                           *)
(***************************************************************************)
\* 'gateway token missing' (line 52)
TokenMissing ==
  <<103, 97, 116, 101, 119, 97, 121, 32, 116, 111, 107, 101, 110, 32, 109,
    105, 115, 115, 105, 110, 103>>

\* 'gateway token mismatch' (line 52)
TokenMismatch ==
  <<103, 97, 116, 101, 119, 97, 121, 32, 116, 111, 107, 101, 110, 32, 109,
    105, 115, 109, 97, 116, 99, 104>>

\* 'pairing required' (line 56)
PairingRequired ==
  <<112, 97, 105, 114, 105, 110, 103, 32, 114, 101, 113, 117, 105, 114,
    101, 100>>

\* 'Invalid or missing token. Visit https://' (line 53)
InvalidTokenVisit ==
  <<73, 110, 118, 97, 108, 105, 100, 32, 111, 114, 32, 109, 105, 115, 115,
    105, 110, 103, 32, 116, 111, 107, 101, 110, 46, 32, 86, 105, 115, 105,
    116, 32, 104, 116, 116, 112, 115, 58, 47, 47>>

\* '?token={REPLACE_WITH_YOUR_TOKEN}' (line 53)
TokenQuery ==
  <<63, 116, 111, 107, 101, 110, 61, 123, 82, 69, 80, 76, 65, 67, 69, 95,
    87, 73, 84, 72, 95, 89, 79, 85, 82, 95, 84, 79, 75, 69, 78, 125>>

\* 'Pairing required. Visit https://' (line 57)
PairingVisit ==
  <<80, 97, 105, 114, 105, 110, 103, 32, 114, 101, 113, 117, 105, 114,
    101, 100, 46, 32, 86, 105, 115, 105, 116, 32, 104, 116, 116, 112, 115,
    58, 47, 47>>

\* '/_admin/' (line 57)
AdminPath ==
  <<47, 95, 97, 100, 109, 105, 110, 47>>

\* '...' (line 481)
Ellipsis ==
  <<46, 46, 46>>

\* 'Container error' (line 497)
ContainerErrorReason ==
  <<67, 111, 110, 116, 97, 105, 110, 101, 114, 32, 101, 114, 114, 111, 114>>

\* String.prototype.includes
Includes(str, needle) ==
  \E i \in 1..(Len(str) - Len(needle) + 1) :
     SubSeq(str, i, i + Len(needle) - 1) = needle

\* Mutant: the pairing rule is tried before the token rule.
transformErrorMessagePairingFirst(message, h) ==
  IF Includes(message, PairingRequired)
  THEN PairingVisit \o h \o AdminPath
  ELSE IF Includes(message, TokenMissing) \/ Includes(message, TokenMismatch)
  THEN InvalidTokenVisit \o h \o TokenQuery
  ELSE message

\* transformErrorMessage (lines 51-61)
transformErrorMessage(message, h) ==
  IF Includes(message, TokenMissing) \/ Includes(message, TokenMismatch)
  THEN InvalidTokenVisit \o h \o TokenQuery
  ELSE IF Includes(message, PairingRequired)
  THEN PairingVisit \o h \o AdminPath
  ELSE message

\* Mutant: the marker is appended to the first 123 code units.
truncateReasonLate(reason) ==
  IF Len(reason) > 123 THEN SubSeq(reason, 1, 123) \o Ellipsis ELSE reason

\* container close handler, lines 480-482: if (reason.length > 123) reason =
\* reason.slice(0, 120) + '...'.  length and slice count UTF-16 code units.
truncateReason(reason) ==
  IF Len(reason) > 123 THEN SubSeq(reason, 1, 120) \o Ellipsis ELSE reason

(***************************************************************************)
(* JSON.parse and JSON.stringify on the documents the relay sees here:     *)
(* objects, strings and null, with JSON whitespace between tokens.  The    *)
(* frames of the model hold no number, array, boolean or escape sequence,  *)
(* and no object with a repeated key.  A value is a record with its type   *)
(* t, the code units v of a string and the members of an object in source  *)
(* order.                                                                  *)
(***************************************************************************)
JsonString(v) == [t |-> "string", v |-> v, members |-> <<>>]

JsonObject(members) == [t |-> "object", v |-> <<>>, members |-> members]

JsonNull == [t |-> "null", v |-> <<>>, members |-> <<>>]

Undefined == [t |-> "undefined", v |-> <<>>, members |-> <<>>]

Member(key, val) == [key |-> key, val |-> val]

\* JSON whitespace: space, tab, line feed, carriage return
JsonWhitespace == {32, 9, 10, 13}

\* the first index from i on that holds no whitespace (Len(str) + 1 if none)
SkipWhitespace(str, i) ==
  CHOOSE j \in i..(Len(str) + 1) :
    /\ j = Len(str) + 1 \/ str[j] \notin JsonWhitespace
    /\ \A k \in i..(j - 1) : str[k] \in JsonWhitespace

Parsed(val, next) == [ok |-> TRUE, val |-> val, next |-> next]

SyntaxError == [ok |-> FALSE, val |-> Undefined, next |-> 0]

\* a string literal starting at the quote at i: up to the next quote, with no
\* control character inside
ParseString(str, i) ==
  IF i > Len(str) \/ str[i] # 34 THEN SyntaxError
  ELSE IF \A j \in (i + 1)..Len(str) : str[j] # 34 THEN SyntaxError
  ELSE LET j == CHOOSE j \in (i + 1)..Len(str) :
                   str[j] = 34 /\ \A k \in (i + 1)..(j - 1) : str[k] # 34
       IN  IF \E k \in (i + 1)..(j - 1) : str[k] < 32 \/ str[k] = 92
           THEN SyntaxError
           ELSE Parsed(JsonString(SubSeq(str, i + 1, j - 1)), j + 1)

\* 'null'
NullLiteral ==
  <<110, 117, 108, 108>>

RECURSIVE ParseValue(_, _)
RECURSIVE ParseMembers(_, _, _)
\* the members of an object from i on, the opening brace and the members acc
\* already read: key, colon, value, then a comma or the closing brace
ParseMembers(str, i, acc) ==
  LET key == ParseString(str, SkipWhitespace(str, i))
      colon == SkipWhitespace(str, key.next)
      val == ParseValue(str, colon + 1)
      after == SkipWhitespace(str, val.next)
  IN  IF ~key.ok \/ colon > Len(str) \/ str[colon] # 58 THEN SyntaxError
      ELSE IF ~val.ok \/ after > Len(str) THEN SyntaxError
      ELSE IF str[after] = 125
        THEN Parsed(JsonObject(Append(acc, Member(key.val.v, val.val))), after + 1)
      ELSE IF str[after] = 44
        THEN ParseMembers(str, after + 1, Append(acc, Member(key.val.v, val.val)))
      ELSE SyntaxError

ParseValue(str, i) ==
  LET at == SkipWhitespace(str, i)
  IN  IF at > Len(str) THEN SyntaxError
      ELSE IF str[at] = 34 THEN ParseString(str, at)
      ELSE IF str[at] = 123
        THEN IF SkipWhitespace(str, at + 1) <= Len(str)
                /\ str[SkipWhitespace(str, at + 1)] = 125
             THEN Parsed(JsonObject(<<>>), SkipWhitespace(str, at + 1) + 1)
             ELSE ParseMembers(str, at + 1, <<>>)
      ELSE IF at + 3 <= Len(str) /\ SubSeq(str, at, at + 3) = NullLiteral
        THEN Parsed(JsonNull, at + 4)
      ELSE SyntaxError

\* JSON.parse: one value, and nothing but whitespace after it
JSONparse(text) ==
  LET r == ParseValue(text, 1)
  IN  IF r.ok /\ SkipWhitespace(text, r.next) = Len(text) + 1 THEN r
      ELSE SyntaxError

RECURSIVE JSONstringify(_)
RECURSIVE StringifyMembers(_, _)
StringifyMembers(members, k) ==
  IF k > Len(members) THEN <<>>
  ELSE (IF k > 1 THEN <<44>> ELSE <<>>)
       \o <<34>> \o members[k].key \o <<34, 58>> \o JSONstringify(members[k].val)
       \o StringifyMembers(members, k + 1)

\* JSON.stringify: no whitespace, members in order
JSONstringify(val) ==
  IF val.t = "string" THEN <<34>> \o val.v \o <<34>>
  ELSE IF val.t = "object" THEN <<123>> \o StringifyMembers(val.members, 1) \o <<125>>
  ELSE NullLiteral

HasMember(val, key) ==
  val.t = "object" /\ \E k \in 1..Len(val.members) : val.members[k].key = key

\* val[key]: undefined on a string, and on an object without the key
GetMember(val, key) ==
  IF HasMember(val, key)
  THEN val.members[CHOOSE k \in 1..Len(val.members) : val.members[k].key = key].val
  ELSE Undefined

\* val[key] = new on an object that has the key
SetMember(val, key, new) ==
  JsonObject([k \in 1..Len(val.members) |->
                IF val.members[k].key = key
                THEN Member(key, new) ELSE val.members[k]])

\* 'error' (line 442)
ErrorKey ==
  <<101, 114, 114, 111, 114>>

\* 'message' (line 442)
MessageKey ==
  <<109, 101, 115, 115, 97, 103, 101>>

\* Hosts: 11 characters, and 51, 52 and 84 characters (with 51 the token
\* instruction is 123 characters long, with 84 the pairing instruction is 124).
\* 'example.com'
ExampleHost ==
  <<101, 120, 97, 109, 112, 108, 101, 46, 99, 111, 109>>

\* 'moltbot-sandbox.acme-robotics-platforms.workers.dev'
Host51 ==
  <<109, 111, 108, 116, 98, 111, 116, 45, 115, 97, 110, 100, 98, 111, 120,
    46, 97, 99, 109, 101, 45, 114, 111, 98, 111, 116, 105, 99, 115, 45,
    112, 108, 97, 116, 102, 111, 114, 109, 115, 46, 119, 111, 114, 107,
    101, 114, 115, 46, 100, 101, 118>>

\* 'moltbot-sandbox.acmes-robotics-platforms.workers.dev'
Host52 ==
  <<109, 111, 108, 116, 98, 111, 116, 45, 115, 97, 110, 100, 98, 111, 120,
    46, 97, 99, 109, 101, 115, 45, 114, 111, 98, 111, 116, 105, 99, 115,
    45, 112, 108, 97, 116, 102, 111, 114, 109, 115, 46, 119, 111, 114,
    107, 101, 114, 115, 46, 100, 101, 118>>

\* 'moltbot-sandbox-production-europe-west.a...'
\* '...cme-robotic-platform-engineering.workers.dev'
Host84 ==
  <<109, 111, 108, 116, 98, 111, 116, 45, 115, 97, 110, 100, 98, 111, 120,
    45, 112, 114, 111, 100, 117, 99, 116, 105, 111, 110, 45, 101, 117,
    114, 111, 112, 101, 45, 119, 101, 115, 116, 46, 97, 99, 109, 101, 45,
    114, 111, 98, 111, 116, 105, 99, 45, 112, 108, 97, 116, 102, 111, 114,
    109, 45, 101, 110, 103, 105, 110, 101, 101, 114, 105, 110, 103, 46,
    119, 111, 114, 107, 101, 114, 115, 46, 100, 101, 118>>

Hosts == {ExampleHost, Host51, Host52, Host84}

\* a reason naming the token mismatch:
\* 'unauthorized: gateway token mismatch (set gat'
\* 'eway.remote.token to match gateway.auth.token)'
MismatchReason ==
  <<117, 110, 97, 117, 116, 104, 111, 114, 105, 122, 101, 100, 58, 32,
    103, 97, 116, 101, 119, 97, 121, 32, 116, 111, 107, 101, 110, 32, 109,
    105, 115, 109, 97, 116, 99, 104, 32, 40, 115, 101, 116, 32, 103, 97,
    116, 101, 119, 97, 121, 46, 114, 101, 109, 111, 116, 101, 46, 116,
    111, 107, 101, 110, 32, 116, 111, 32, 109, 97, 116, 99, 104, 32, 103,
    97, 116, 101, 119, 97, 121, 46, 97, 117, 116, 104, 46, 116, 111, 107,
    101, 110, 41>>

\* a reason matching both rules: 'gateway token missing; pairing required'
BothReason ==
  <<103, 97, 116, 101, 119, 97, 121, 32, 116, 111, 107, 101, 110, 32, 109,
    105, 115, 115, 105, 110, 103, 59, 32, 112, 97, 105, 114, 105, 110,
    103, 32, 114, 101, 113, 117, 105, 114, 101, 100>>

\* a reason of 123 ASCII characters matching no rule
LongReason ==
  <<99, 111, 110, 110, 101, 99, 116, 105, 111, 110, 32, 99, 108, 111, 115,
    101, 100, 32, 98, 121, 32, 103, 97, 116, 101, 119, 97, 121, 58, 32,
    117, 112, 115, 116, 114, 101, 97, 109, 32, 97, 103, 101, 110, 116, 32,
    115, 101, 115, 115, 105, 111, 110, 32, 101, 110, 100, 101, 100, 32,
    97, 102, 116, 101, 114, 32, 105, 100, 108, 101, 32, 116, 105, 109,
    101, 111, 117, 116, 59, 32, 114, 101, 99, 111, 110, 110, 101, 99, 116,
    32, 116, 111, 32, 114, 101, 115, 117, 109, 101, 32, 116, 104, 101, 32,
    99, 111, 110, 118, 101, 114, 115, 97, 116, 105, 111, 110, 32, 115,
    116, 97, 116, 101, 46, 46>>

\* a reason of 66 characters and 122 bytes matching no rule: 'd\u00E9connect\u00E9: '
\* and 54 times U+00E9
AccentedReason ==
  <<100, 233, 99, 111, 110, 110, 101, 99, 116, 233, 58, 32, 233, 233, 233,
    233, 233, 233, 233, 233, 233, 233, 233, 233, 233, 233, 233, 233, 233,
    233, 233, 233, 233, 233, 233, 233, 233, 233, 233, 233, 233, 233, 233,
    233, 233, 233, 233, 233, 233, 233, 233, 233, 233, 233, 233, 233, 233,
    233, 233, 233, 233, 233, 233, 233, 233, 233>>

\* Text frames of the container: error documents whose message matches a rule
\* of the transform, error documents whose message matches none (one as
\* JSON.stringify writes it, one with spaces), a document without an error,
\* and a text that is not JSON ('pairing required', PairingRequired).
\* '{"error":{"message":"pairing required"}}'
PairingDocument ==
  <<123, 34, 101, 114, 114, 111, 114, 34, 58, 123, 34, 109, 101, 115, 115,
    97, 103, 101, 34, 58, 34, 112, 97, 105, 114, 105, 110, 103, 32, 114,
    101, 113, 117, 105, 114, 101, 100, 34, 125, 125>>

\* '{"error":{"message":"gateway token mismatch"}}'
MismatchDocument ==
  <<123, 34, 101, 114, 114, 111, 114, 34, 58, 123, 34, 109, 101, 115, 115,
    97, 103, 101, 34, 58, 34, 103, 97, 116, 101, 119, 97, 121, 32, 116,
    111, 107, 101, 110, 32, 109, 105, 115, 109, 97, 116, 99, 104, 34, 125,
    125>>

\* '{"error":{"message":"gateway token missing; pairing required"}}'
BothDocument ==
  <<123, 34, 101, 114, 114, 111, 114, 34, 58, 123, 34, 109, 101, 115, 115,
    97, 103, 101, 34, 58, 34, 103, 97, 116, 101, 119, 97, 121, 32, 116,
    111, 107, 101, 110, 32, 109, 105, 115, 115, 105, 110, 103, 59, 32,
    112, 97, 105, 114, 105, 110, 103, 32, 114, 101, 113, 117, 105, 114,
    101, 100, 34, 125, 125>>

\* '{"error":{"message":"rate limited"}}'
OtherErrorDocument ==
  <<123, 34, 101, 114, 114, 111, 114, 34, 58, 123, 34, 109, 101, 115, 115,
    97, 103, 101, 34, 58, 34, 114, 97, 116, 101, 32, 108, 105, 109, 105,
    116, 101, 100, 34, 125, 125>>

\* '{ "error": { "message": "rate limited" } }'
SpacedErrorDocument ==
  <<123, 32, 34, 101, 114, 114, 111, 114, 34, 58, 32, 123, 32, 34, 109,
    101, 115, 115, 97, 103, 101, 34, 58, 32, 34, 114, 97, 116, 101, 32,
    108, 105, 109, 105, 116, 101, 100, 34, 32, 125, 32, 125>>

\* '{"type":"pong"}'
PongDocument ==
  <<123, 34, 116, 121, 112, 101, 34, 58, 34, 112, 111, 110, 103, 34, 125>>

ContainerFrames ==
  {TextFrame(PairingDocument), TextFrame(MismatchDocument),
   TextFrame(BothDocument), TextFrame(OtherErrorDocument),
   TextFrame(SpacedErrorDocument), TextFrame(PongDocument),
   TextFrame(PairingRequired), BinaryFrame(<<123, 125>>)}

\* Frames of the client: a text frame (an error document, which this
\* direction does not inspect) and a binary frame.
ServerFrames == {TextFrame(PairingDocument), BinaryFrame(<<1, 2>>)}

\* the number of message events of one relayed connection
MaxRelayMsgs == 2

\* Close events a handle of the relay may deliver: a normal closure, an
\* abnormal one (code 1006, which carries no reason), and policy closures of
\* the gateway.  The reason of a close frame is at most 123 bytes long.
RelayCloseEvents ==
  {[kind |-> "close", code |-> 1000, reason |-> ByeReason],
   [kind |-> "close", code |-> 1006, reason |-> <<>>],
   [kind |-> "close", code |-> 1008, reason |-> PairingRequired],
   [kind |-> "close", code |-> 1008, reason |-> TokenMissing],
   [kind |-> "close", code |-> 1008, reason |-> MismatchReason],
   [kind |-> "close", code |-> 1008, reason |-> BothReason],
   [kind |-> "close", code |-> 1000, reason |-> LongReason],
   [kind |-> "close", code |-> 1001, reason |-> AccentedReason]}

\* The relay once both handles are accepted and the handlers registered
\* (lines 399-498).
InitRelay ==
  /\ harness = "off"
  /\ msg = <<>>
  /\ fed = 0
  /\ results = <<>>
  /\ queue = <<>>
  /\ pre = <<>>
  /\ last = NoOutcome
  /\ CompareOff
  /\ RequestOff
  /\ CronOff
  /\ PoolOff
  /\ BridgeOff
  /\ serverWs = "open"
  /\ containerWs = "open"
  /\ host \in Hosts
  /\ serverCloses = <<>>
  /\ containerCloses = <<>>
  /\ serverEvent = NoEvent
  /\ containerEvent = NoEvent
  /\ toContainer = <<>>
  /\ toServer = <<>>
  /\ serverIn = <<>>
  /\ containerIn = <<>>

\* serverWs message handler (lines 409-422): event.data goes to the container
\* as it is, if the container's handle is open.
onServerMessage(f) ==
  /\ serverIn' = Append(serverIn, [frame |-> f, open |-> containerWs = "open"])
  /\ toContainer' = IF containerWs = "open" THEN Append(toContainer, f)
                    ELSE toContainer
  /\ UNCHANGED <<toServer, containerIn>>

\* containerWs message handler, lines 435-457: a string is parsed; if
\* parsed.error?.message is truthy it is replaced by its transform and the
\* document serialized again.  A throw inside the try (a SyntaxError of
\* JSON.parse, the TypeError of reading .error of null or of calling
\* .includes on a message that is no string) leaves data as it came.
intercept(f, h) ==
  IF f.kind # "text" THEN f
  ELSE LET parsed == JSONparse(f.data)
           error == GetMember(parsed.val, ErrorKey)
           message == GetMember(error, MessageKey)
       IN  IF ~parsed.ok \/ parsed.val.t = "null" THEN f
           ELSE IF error.t \in {"undefined", "null"} THEN f
           ELSE IF message.t = "string" /\ message.v # <<>>
             THEN TextFrame(JSONstringify(
                    SetMember(parsed.val, ErrorKey,
                      SetMember(error, MessageKey,
                        JsonString(transformErrorMessage(message.v, h))))))
           ELSE f

\* Mutant: the newest frame goes ahead of the frames already delivered.
onContainerMessageNewestFirst(f) ==
  /\ containerIn' = Append(containerIn, [frame |-> f, open |-> serverWs = "open"])
  /\ toServer' = IF serverWs = "open" THEN <<intercept(f, host)>> \o toServer
                 ELSE toServer
  /\ UNCHANGED <<toContainer, serverIn>>

\* containerWs message handler (lines 425-464): the frame, intercepted, goes to
\* the client if the client-facing handle is open.
onContainerMessage(f) ==
  /\ containerIn' = Append(containerIn, [frame |-> f, open |-> serverWs = "open"])
  /\ toServer' = IF serverWs = "open" THEN Append(toServer, intercept(f, host))
                 ELSE toServer
  /\ UNCHANGED <<toContainer, serverIn>>

\* serverWs close handler (lines 467-472): the call is not guarded, a throw of
\* close() ends the handler.
onServerClose(ev) ==
  /\ containerCloses' = Append(containerCloses, CloseCall(ev.code, ev.reason))
  /\ containerWs' = close(containerWs, ev.code)

\* containerWs close handler (lines 474-487)
onContainerClose(ev) ==
  /\ serverCloses' = Append(serverCloses,
       CloseCall(ev.code, truncateReason(transformErrorMessage(ev.reason, host))))
  /\ serverWs' = close(serverWs, ev.code)

\* serverWs error handler (lines 490-493)
onServerError ==
  /\ containerCloses' = Append(containerCloses, CloseCall(1011, ClientErrorReason))
  /\ containerWs' = close(containerWs, 1011)

\* Mutant: the container's error is reported with the client's reason.
onContainerErrorAsClient ==
  /\ serverCloses' = Append(serverCloses, CloseCall(1011, ClientErrorReason))
  /\ serverWs' = close(serverWs, 1011)

\* containerWs error handler (lines 495-498)
onContainerError ==
  /\ serverCloses' = Append(serverCloses, CloseCall(1011, ContainerErrorReason))
  /\ serverWs' = close(serverWs, 1011)

(***************************************************************************)
(* Events of the relayed pair: a handle that is open or closing may        *)
(* deliver a message, and delivers one last event, a close or an error,    *)
(* after which it is closed.                                               *)
(***************************************************************************)
ServerMessage ==
  /\ serverWs \in {"open", "closing"}
  /\ Len(serverIn) + Len(containerIn) < MaxRelayMsgs
  /\ \E f \in ServerFrames : onServerMessage(f)
  /\ UNCHANGED <<serverWs, containerWs, host, serverCloses, containerCloses,
                 serverEvent, containerEvent, codecVars, httpVars, bridgeVars>>

ContainerMessage ==
  /\ containerWs \in {"open", "closing"}
  /\ Len(serverIn) + Len(containerIn) < MaxRelayMsgs
  /\ \E f \in ContainerFrames : onContainerMessage(f)
  /\ UNCHANGED <<serverWs, containerWs, host, serverCloses, containerCloses,
                 serverEvent, containerEvent, codecVars, httpVars, bridgeVars>>

ServerClose ==
  /\ serverWs \in {"open", "closing"}
  /\ \E ev \in RelayCloseEvents : onServerClose(ev) /\ serverEvent' = ev
  /\ serverWs' = "closed"
  /\ UNCHANGED <<host, serverCloses, containerEvent, relayMsgVars, codecVars, httpVars,
                 bridgeVars>>

ServerError ==
  /\ serverWs \in {"open", "closing"}
  /\ onServerError
  /\ serverEvent' = ErrorEvent
  /\ serverWs' = "closed"
  /\ UNCHANGED <<host, serverCloses, containerEvent, relayMsgVars, codecVars, httpVars,
                 bridgeVars>>

ContainerClose ==
  /\ containerWs \in {"open", "closing"}
  /\ \E ev \in RelayCloseEvents : onContainerClose(ev) /\ containerEvent' = ev
  /\ containerWs' = "closed"
  /\ UNCHANGED <<host, containerCloses, serverEvent, relayMsgVars, codecVars, httpVars,
                 bridgeVars>>

ContainerError ==
  /\ containerWs \in {"open", "closing"}
  /\ onContainerError
  /\ containerEvent' = ErrorEvent
  /\ containerWs' = "closed"
  /\ UNCHANGED <<host, containerCloses, serverEvent, relayMsgVars, codecVars, httpVars,
                 bridgeVars>>

NextRelay ==
  \/ ServerClose
  \/ ServerError
  \/ ContainerClose
  \/ ContainerError

SpecRelay == InitRelay /\ [][NextRelay]_vars

(***************************************************************************)
(* The relay with its message handlers: the relayed pair of a request to   *)
(* a short or a long host, forwarding frames in both directions until its  *)
(* handles close.                                                          *)
(***************************************************************************)
ForwardHosts == {ExampleHost, Host84}

InitForward == InitRelay /\ host \in ForwardHosts

NextForward ==
  \/ ServerMessage
  \/ ContainerMessage
  \/ ServerClose
  \/ ServerError
  \/ ContainerClose
  \/ ContainerError

SpecForward == InitForward /\ [][NextForward]_vars

(***************************************************************************)
(* One pair with its message traffic, of either kind: the bridged pair of  *)
(* the chunked bridge or the pair of the relay.                            *)
(***************************************************************************)
InitPairs == Init \/ InitForward

NextPairs == Next \/ NextForward

SpecPairs == InitPairs /\ [][NextPairs]_vars

(***************************************************************************)
(* The worker serving one WebSocket request, by either route: the chunked  *)
(* bridge or the generic relay.                                            *)
(***************************************************************************)
InitWorker == Init \/ InitRelay

NextWorker == Next \/ NextRelay

SpecWorker == InitWorker /\ [][NextWorker]_vars


(***************************************************************************)
(* Claims about the chunked bridge, checked under Spec.                    *)
(***************************************************************************)
IsBinary(f) == f.kind = "binary"

IsPing(f) == f = Ping

PingCount(log) == Len(SelectSeq(log, IsPing))

RECURSIVE IsSubseq(_, _)
IsSubseq(a, b) ==
  IF a = <<>> THEN TRUE
  ELSE IF b = <<>> THEN FALSE
  ELSE IF Head(a) = Head(b) THEN IsSubseq(Tail(a), Tail(b))
  ELSE IsSubseq(a, Tail(b))

\* C7: a reassembly overflow is fatal to the pair.  Once chunksToMessage has
\* thrown the overflow error in the backend message handler, the timer is
\* cancelled and neither handle is open any more.
OverflowTearsDown ==
  overflowed => (pingInterval = "null" /\ clientWs # "open" /\ browserWs # "open")

\* C8: no partial forwarding.  Every frame delivered to the client is a text
\* frame; its content is the decoded payload of a run of consecutive backend
\* frames whose first frame declares exactly the payload length of the run;
\* and the frames delivered are, in order, among the messages the decoder
\* yielded for the backend frames received.
RECURSIVE Yields(_, _, _)
Yields(frames, i, buf) ==
  IF i > Len(frames) THEN <<>>
  ELSE LET r == chunksToMessage(Append(buf, frames[i].data))
       IN  (IF r.kind = "msg" THEN <<r.val>> ELSE <<>>) \o Yields(frames, i + 1, r.chunks)

IsCompleteRun(i, j) ==
  LET run == [k \in 1..(j - i + 1) |-> browserIn[i + k - 1].data]
  IN  /\ Len(run[1]) >= HEADER_SIZE
      /\ Len(Flatten(run)) - HEADER_SIZE = getUint32(run[1])

RunText(i, j) ==
  LET run == [k \in 1..(j - i + 1) |-> browserIn[i + k - 1].data]
  IN  TextDecode(SubSeq(Flatten(run), HEADER_SIZE + 1, Len(Flatten(run))))

NoPartialForwarding ==
  /\ \A k \in 1..Len(toClient) :
       /\ toClient[k].kind = "text"
       /\ \E i \in 1..Len(browserIn) : \E j \in i..Len(browserIn) :
            IsCompleteRun(i, j) /\ toClient[k].data = RunText(i, j)
  /\ IsSubseq([k \in 1..Len(toClient) |-> toClient[k].data], Yields(browserIn, 1, <<>>))

\* a message of two chunks was reassembled and delivered
NoPartialForwardingWitness ==
  /\ Len(browserIn) = 2
  /\ Len(toClient) = 1
  /\ getUint32(browserIn[1].data) > FIRST_CHUNK_DATA_SIZE

\* C9: outbound chunking.  The binary frames delivered to the backend are, in
\* order, the chunks messageToChunks gives for each text message received from
\* the client while the backend handle was open, one frame per chunk; the only
\* text frames the backend gets are liveness frames, never a client message.
\* The backend handle is open as long as no close or error event was handled.
RECURSIVE ExpectedChunks(_)
ExpectedChunks(history) ==
  IF history = <<>> THEN <<>>
  ELSE LET h  == Head(history)
           cs == messageToChunks(h.frame.data)
       IN  (IF h.frame.kind = "text" /\ h.open
            THEN [k \in 1..Len(cs) |-> BinaryFrame(cs[k])] ELSE <<>>)
             \o ExpectedChunks(Tail(history))

OutboundChunking ==
  /\ (pc = "bridging" /\ ~tornDown) => browserWs = "open"
  /\ SelectSeq(toBrowser, IsBinary) = ExpectedChunks(clientIn)
  /\ \A k \in 1..Len(toBrowser) : toBrowser[k].kind = "text" => toBrowser[k] = Ping

\* a text message of more than one chunk went out, next to a liveness frame
OutboundChunkingWitness ==
  /\ \E k \in 1..Len(clientIn) :
       /\ clientIn[k].open
       /\ clientIn[k].frame.kind = "text"
       /\ Len(messageToChunks(clientIn[k].frame.data)) >= 2
  /\ PingCount(toBrowser) >= 1

\* C10: keepalive lifecycle.  The timer is set from the moment the bridge is
\* wired until the first close or error event handled on a handle of the pair
\* and is null afterwards (and before bridging); every timer period makes
\* one send of a liveness frame to the backend (delivering one frame, or none
\* when the send throws), liveness frames come from the timer alone, and none
\* is sent once a close or error event has been handled.
TimerState ==
  /\ (pc = "bridging" /\ ~tornDown) => pingInterval = "set"
  /\ tornDown => pingInterval = "null"
  /\ pc # "bridging" => pingInterval = "null"

TimerStep ==
  /\ ticks' = ticks + 1 => toBrowser' \in {toBrowser, Append(toBrowser, Ping)}
  /\ PingCount(toBrowser') # PingCount(toBrowser) => ticks' = ticks + 1
  /\ tornDown => PingCount(toBrowser') = PingCount(toBrowser)

IdempotentCancellation ==
  /\ cleared <= 1
  /\ (cleared = 1) => (tornDown /\ pingInterval = "null")

\* a handler of each handle has run (a close or error on the client, then one
\* on the backend, or the other way round) and the timer was cleared once
IdempotentCancellationWitness ==
  /\ cleared = 1
  /\ Len(clientCloses) >= 1
  /\ Len(browserCloses) >= 1

\* C12: teardown is not re-entered.  Once a close or error handler of the pair
\* has run, no later event issues another close call on either handle.
NoTeardownReentry ==
  [][tornDown => (clientCloses' = clientCloses /\ browserCloses' = browserCloses)]_vars

\* C13: keepalive send failures are swallowed.  A timer callback whose send
\* throws (a tick that delivers nothing) leaves the pair as it was: the timer
\* stays set, no handle changes state or is closed, nothing is forwarded and
\* the buffer is untouched; and the timer is cancelled only by a close or
\* error handler.
PingFailed == ticks' = ticks + 1 /\ toBrowser' = toBrowser

PingFailureSwallowed ==
  [][/\ PingFailed => UNCHANGED <<pc, clientWs, browserWs, browserChunks,
                                  pingInterval, toClient, clientCloses,
                                  browserCloses, cleared, tornDown>>
     /\ (pingInterval = "set" /\ pingInterval' = "null") => (~tornDown /\ tornDown')
    ]_vars

\* a ping was lost and the pair is still bridging, timer set, both handles open
PingFailureSwallowedWitness ==
  /\ pc = "bridging"
  /\ ticks > PingCount(toBrowser)
  /\ pingInterval = "set"
  /\ clientWs = "open"
  /\ browserWs = "open"
  /\ ~tornDown

\* C14: initialization failure.  When acquisition or the dial fails, the
\* client handle gets one close call, with code 1011 and the failure detail
\* as reason, and that call closes it; the pair is never wired (no buffer, no
\* timer, no handler ever run, nothing forwarded); after a failed acquisition
\* the backend is not dialled; and neither step is tried a second time.
NeverWired ==
  /\ browserChunks = <<>>
  /\ pingInterval = "null"
  /\ cleared = 0
  /\ toBrowser = <<>>
  /\ toClient = <<>>
  /\ clientIn = <<>>
  /\ browserIn = <<>>
  /\ browserCloses = <<>>
  /\ ~tornDown

InitializationFailure ==
  pc = "failed" =>
    /\ initError # "null"
    /\ clientCloses = <<CloseCall(1011, initError)>>
    /\ NeverWired
    /\ sessionId = "null" => (dials = <<>> /\ browserWs = "none")
    /\ acquires = 1
    /\ Len(dials) <= 1

\* C15: phase order.  A pair moves from acquiring to dialing to bridging and
\* in no other order (or to the failed end from the first two); the backend
\* is dialled only while dialing and only with the session id the acquisition
\* returned; nothing is forwarded in either direction before bridging; and
\* bridging is never left except by a close or error event of a handle, which
\* is the step that tears the pair down.
PhaseSteps ==
  {<<"acquiring", "dialing">>, <<"dialing", "bridging">>,
   <<"acquiring", "failed">>, <<"dialing", "failed">>}

PhaseState ==
  /\ pc \in {"acquiring", "dialing", "bridging", "failed"}
  /\ pc = "acquiring" => (sessionId = "null" /\ acquires = 0)
  /\ pc \in {"dialing", "bridging"} => (sessionId \in SessionIds /\ acquires = 1)
  /\ pc \in {"acquiring", "dialing"} => dials = <<>>
  /\ pc = "bridging" => dials = <<sessionId>>
  /\ \A k \in 1..Len(dials) : dials[k] \in SessionIds /\ dials[k] = sessionId
  /\ pc # "bridging" => (toBrowser = <<>> /\ toClient = <<>> /\ browserWs = "none")

PhaseStep ==
  /\ pc' # pc => <<pc, pc'>> \in PhaseSteps
  /\ dials' # dials => (pc = "dialing" /\ dials' = Append(dials, sessionId))
  /\ (~tornDown /\ tornDown') =>
       /\ pc = "bridging"
       /\ \/ clientWs # "closed" /\ clientWs' = "closed"
          \/ browserWs # "closed" /\ browserWs' = "closed"
  /\ tornDown => tornDown'

PhaseOrder == []PhaseState /\ [][PhaseStep]_vars

\* a pair that was bridged with the acquired id, forwarded in both directions
\* and was then torn down
PhaseOrderWitness ==
  /\ pc = "bridging"
  /\ dials = <<sessionId>>
  /\ SelectSeq(toBrowser, IsBinary) # <<>>
  /\ toClient # <<>>
  /\ tornDown

\* C16: no processing after close.  Once a close or error handler of the pair
\* has run, no later step delivers a frame on either handle or changes the
\* reassembly buffer.
NoProcessingAfterClose ==
  [][tornDown => /\ toBrowser' = toBrowser
                 /\ toClient' = toClient
                 /\ browserChunks' = browserChunks]_vars

\* sent is what the truncation rule of the specification makes of reason: the
\* first 120 bytes followed by the marker when reason is longer than 123
\* bytes, and reason itself otherwise.
TruncatedTo(sent, reason) ==
  IF ByteLength(reason) > MaxReasonBytes
  THEN \E n \in 0..Len(reason) :
          /\ ByteLength(SubSeq(reason, 1, n)) = 120
          /\ sent = SubSeq(reason, 1, n) \o Ellipsis
  ELSE sent = reason

\* C17: symmetric close propagation in the relay.  When a handle has closed
\* with code c and reason r, the other handle got the close call with code c
\* and the transformed, truncated r, and is closed by it (it is not left
\* open); this in both directions.
Propagated(ev, calls, peer) ==
  ev.kind = "close" =>
    /\ Len(calls) = 1
    /\ calls[1].code = ev.code
    /\ TruncatedTo(calls[1].reason, transformErrorMessage(ev.reason, host))
    /\ peer # "open"

SymmetricClosePropagation ==
  /\ Propagated(serverEvent, containerCloses, containerWs)
  /\ Propagated(containerEvent, serverCloses, serverWs)

ReasonsFit(calls) ==
  \A k \in 1..Len(calls) : ByteLength(calls[k].reason) <= MaxReasonBytes

CloseReasonsFit ==
  /\ ReasonsFit(clientCloses)
  /\ ReasonsFit(browserCloses)
  /\ ReasonsFit(serverCloses)
  /\ ReasonsFit(containerCloses)

\* C20: error propagation.  In the relay and in the bridge, when a handle has
\* delivered an error event the other handle got one close call, with code
\* 1011 and the fixed reason naming the side of the error ('Client error' for
\* the client-facing handle, 'Browser error' or 'Container error' for the
\* backend), and is no longer open.
ErrorClosed(ev, calls, peer, reason) ==
  ev.kind = "error" =>
    /\ calls = <<CloseCall(1011, reason)>>
    /\ peer # "open"

ErrorPropagation ==
  /\ ErrorClosed(clientEvent, browserCloses, browserWs, ClientErrorReason)
  /\ ErrorClosed(browserEvent, clientCloses, clientWs, BrowserErrorReason)
  /\ ErrorClosed(serverEvent, containerCloses, containerWs, ClientErrorReason)
  /\ ErrorClosed(containerEvent, serverCloses, serverWs, ContainerErrorReason)
  /\ ClientErrorReason # BrowserErrorReason
  /\ ClientErrorReason # ContainerErrorReason

\* an error of the client handle that closed an open backend, in the bridge or
\* in the relay
ErrorPropagationWitness ==
  \/ clientEvent.kind = "error" /\ browserWs = "closing"
  \/ serverEvent.kind = "error" /\ containerWs = "closing"

(***************************************************************************)
(* The comparator (src/gateway/sync.ts, lines 377-387).                    *)
(***************************************************************************)
MaxSecretLen == 3

\* Code units the compared strings are made of: 'a', 'b' and U+0161, which
\* differs from 'a' in its high byte only.
SecretUnits == {97, 98, 353}

RECURSIVE StringsUpTo(_, _)
StringsUpTo(units, n) ==
  IF n = 0 THEN {<<>>}
  ELSE LET shorter == StringsUpTo(units, n - 1)
       IN  shorter \cup {Append(str, u) : str \in shorter, u \in units}

Secrets == StringsUpTo(SecretUnits, MaxSecretLen)

\* x ^ y and x | y on non-negative integers
RECURSIVE BitXor(_, _)
BitXor(x, y) ==
  IF x = 0 THEN y
  ELSE IF y = 0 THEN x
  ELSE (((x % 2) + (y % 2)) % 2) + 2 * BitXor(x \div 2, y \div 2)

RECURSIVE BitOr(_, _)
BitOr(x, y) ==
  IF x = 0 THEN y
  ELSE IF y = 0 THEN x
  ELSE (IF (x % 2) = 1 \/ (y % 2) = 1 THEN 1 ELSE 0) + 2 * BitOr(x \div 2, y \div 2)

\* Mutant: the accumulator keeps the difference of the last position only.
accumulateLast(result, x, y) == BitXor(x, y)

\* result |= a.charCodeAt(i) ^ b.charCodeAt(i) (line 384)
accumulate(result, x, y) == BitOr(result, BitXor(x, y))

\* Mutant: the loop is left at the first difference.
loopConditionEarlyExit(i, a, result) == i < Len(a) /\ result = 0

\* i < a.length (line 383)
loopCondition(i, a, result) == i < Len(a)

RECURSIVE compareLoop(_, _, _, _)
compareLoop(a, b, i, result) ==
  IF loopCondition(i, a, result)
  THEN compareLoop(a, b, i + 1, accumulate(result, a[i + 1], b[i + 1]))
  ELSE result

\* timingSafeEqual (lines 377-387)
timingSafeEqual(a, b) ==
  IF Len(a) # Len(b) THEN FALSE ELSE compareLoop(a, b, 0, 0) = 0

\* One call of timingSafeEqual, statement by statement.
InitCompare ==
  /\ harness = "off"
  /\ msg = <<>>
  /\ fed = 0
  /\ results = <<>>
  /\ queue = <<>>
  /\ pre = <<>>
  /\ last = NoOutcome
  /\ BridgeOff
  /\ RelayOff
  /\ RequestOff
  /\ CronOff
  /\ PoolOff
  /\ \E a \in Secrets, b \in Secrets :
       comparison = [pc |-> "entry", a |-> a, b |-> b, i |-> 0, result |-> 0,
                     steps |-> 0, verdict |-> FALSE]

\* lines 378-382: the length test, then let result = 0
compareEnter ==
  /\ comparison.pc = "entry"
  /\ comparison' = IF Len(comparison.a) # Len(comparison.b)
                   THEN [comparison EXCEPT !.pc = "returned", !.verdict = FALSE]
                   ELSE [comparison EXCEPT !.pc = "loop", !.i = 0, !.result = 0]
  /\ UNCHANGED <<codecVars, bridgeVars, relayVars, requestVars, cronVars, poolVars>>

\* lines 383-385: one pass of the loop body
compareIterate ==
  /\ comparison.pc = "loop"
  /\ loopCondition(comparison.i, comparison.a, comparison.result)
  /\ comparison' = [comparison EXCEPT
                      !.result = accumulate(comparison.result,
                                            comparison.a[comparison.i + 1],
                                            comparison.b[comparison.i + 1]),
                      !.i = comparison.i + 1,
                      !.steps = comparison.steps + 1]
  /\ UNCHANGED <<codecVars, bridgeVars, relayVars, requestVars, cronVars, poolVars>>

\* line 386: return result === 0
compareReturn ==
  /\ comparison.pc = "loop"
  /\ ~loopCondition(comparison.i, comparison.a, comparison.result)
  /\ comparison' = [comparison EXCEPT !.pc = "returned",
                                      !.verdict = (comparison.result = 0)]
  /\ UNCHANGED <<codecVars, bridgeVars, relayVars, requestVars, cronVars, poolVars>>

NextCompare ==
  \/ compareEnter
  \/ compareIterate
  \/ compareReturn

SpecCompare == InitCompare /\ [][NextCompare]_vars

(***************************************************************************)
(* One request through the worker: fetch (src/index.ts, lines 596-614),    *)
(* then the middleware and routes of the app in the order they are         *)
(* registered (lines 138-507), the routes of /cdp among them               *)
(* (src/gateway/sync.ts, lines 397-586).  The logging and sandbox          *)
(* middleware of lines 138-151 change nothing of the request.              *)
(***************************************************************************)
\* 'websocket'
Websocket ==
  <<119, 101, 98, 115, 111, 99, 107, 101, 116>>

\* 'WebSocket'
MixedCaseWebsocket ==
  <<87, 101, 98, 83, 111, 99, 107, 101, 116>>

\* 'h2c'
H2c ==
  <<104, 50, 99>>

\* 'Upgrade'
UpgradeValue ==
  <<85, 112, 103, 114, 97, 100, 101>>

\* 'upgrade'
LowerCaseUpgrade ==
  <<117, 112, 103, 114, 97, 100, 101>>

\* 'keep-alive'
KeepAlive ==
  <<107, 101, 101, 112, 45, 97, 108, 105, 118, 101>>

\* 'dGhlIHNhbXBsZSBub25jZQ=='
HandshakeKey ==
  <<100, 71, 104, 108, 73, 72, 78, 104, 98, 88, 66, 115, 90, 83, 66, 117,
    98, 50, 53, 106, 90, 81, 61, 61>>

\* 'session=1'
CookieValue ==
  <<115, 101, 115, 115, 105, 111, 110, 61, 49>>

\* '/'
RootPath ==
  <<47>>

\* '/ws'
WsPath ==
  <<47, 119, 115>>

\* '/ws/'
WsSlashPath ==
  <<47, 119, 115, 47>>

\* '/cdp'
CdpPath ==
  <<47, 99, 100, 112>>

\* '/cdp/json/version'
VersionPath ==
  <<47, 99, 100, 112, 47, 106, 115, 111, 110, 47, 118, 101, 114, 115, 105,
    111, 110>>

\* '/cdp/json/list'
ListPath ==
  <<47, 99, 100, 112, 47, 106, 115, 111, 110, 47, 108, 105, 115, 116>>

\* '/cdp/json'
JsonPath ==
  <<47, 99, 100, 112, 47, 106, 115, 111, 110>>

\* '/cdp/devtools'
DevtoolsPath ==
  <<47, 99, 100, 112, 47, 100, 101, 118, 116, 111, 111, 108, 115>>

\* '/sandbox-health'
SandboxHealthPath ==
  <<47, 115, 97, 110, 100, 98, 111, 120, 45, 104, 101, 97, 108, 116, 104>>

\* '/api/devices'
ApiDevicesPath ==
  <<47, 97, 112, 105, 47, 100, 101, 118, 105, 99, 101, 115>>

\* '/_admin/'
AdminUiPath ==
  <<47, 95, 97, 100, 109, 105, 110, 47>>

\* '/debug/env'
DebugEnvPath ==
  <<47, 100, 101, 98, 117, 103, 47, 101, 110, 118>>

\* '/api'
ApiPrefix ==
  <<47, 97, 112, 105>>

\* '/_admin'
AdminPrefix ==
  <<47, 95, 97, 100, 109, 105, 110>>

\* '/debug'
DebugPrefix ==
  <<47, 100, 101, 98, 117, 103>>

\* 'gw-token'
GatewayToken ==
  <<103, 119, 45, 116, 111, 107, 101, 110>>

\* 'gw-tokem'
OtherToken ==
  <<103, 119, 45, 116, 111, 107, 101, 109>>

\* 'WebSocket upgrade required'
UpgradeRequired ==
  <<87, 101, 98, 83, 111, 99, 107, 101, 116, 32, 117, 112, 103, 114, 97,
    100, 101, 32, 114, 101, 113, 117, 105, 114, 101, 100>>

\* 'Connect via WebSocket: ws://host/cdp?secret=<CDP_SECRET>'
ConnectHint ==
  <<67, 111, 110, 110, 101, 99, 116, 32, 118, 105, 97, 32, 87, 101, 98,
    83, 111, 99, 107, 101, 116, 58, 32, 119, 115, 58, 47, 47, 104, 111,
    115, 116, 47, 99, 100, 112, 63, 115, 101, 99, 114, 101, 116, 61, 60,
    67, 68, 80, 95, 83, 69, 67, 82, 69, 84, 62>>

\* 'CDP endpoint not configured'
NotConfigured ==
  <<67, 68, 80, 32, 101, 110, 100, 112, 111, 105, 110, 116, 32, 110, 111,
    116, 32, 99, 111, 110, 102, 105, 103, 117, 114, 101, 100>>

\* 'Set CDP_SECRET via: wrangler secret put CDP_SECRET'
SecretHint ==
  <<83, 101, 116, 32, 67, 68, 80, 95, 83, 69, 67, 82, 69, 84, 32, 118,
    105, 97, 58, 32, 119, 114, 97, 110, 103, 108, 101, 114, 32, 115, 101,
    99, 114, 101, 116, 32, 112, 117, 116, 32, 67, 68, 80, 95, 83, 69, 67,
    82, 69, 84>>

\* 'Unauthorized'
Unauthorized ==
  <<85, 110, 97, 117, 116, 104, 111, 114, 105, 122, 101, 100>>

\* 'Browser Rendering not configured'
BrowserNotConfigured ==
  <<66, 114, 111, 119, 115, 101, 114, 32, 82, 101, 110, 100, 101, 114,
    105, 110, 103, 32, 110, 111, 116, 32, 99, 111, 110, 102, 105, 103,
    117, 114, 101, 100>>

\* 'Add browser binding to wrangler.jsonc'
BindingHint ==
  <<65, 100, 100, 32, 98, 114, 111, 119, 115, 101, 114, 32, 98, 105, 110,
    100, 105, 110, 103, 32, 116, 111, 32, 119, 114, 97, 110, 103, 108,
    101, 114, 46, 106, 115, 111, 110, 99>>

\* 'Gateway failed to start'
GatewayFailed ==
  <<71, 97, 116, 101, 119, 97, 121, 32, 102, 97, 105, 108, 101, 100, 32,
    116, 111, 32, 115, 116, 97, 114, 116>>

\* 'Configuration error'
ConfigurationError ==
  <<67, 111, 110, 102, 105, 103, 117, 114, 97, 116, 105, 111, 110, 32,
    101, 114, 114, 111, 114>>

\* 'Set these using: wrangler secret put <VARIABLE_NAME>'
VariableHint ==
  <<83, 101, 116, 32, 116, 104, 101, 115, 101, 32, 117, 115, 105, 110,
    103, 58, 32, 119, 114, 97, 110, 103, 108, 101, 114, 32, 115, 101, 99,
    114, 101, 116, 32, 112, 117, 116, 32, 60, 86, 65, 82, 73, 65, 66, 76,
    69, 95, 78, 65, 77, 69, 62>>

\* 'Debug routes are disabled'
DebugDisabled ==
  <<68, 101, 98, 117, 103, 32, 114, 111, 117, 116, 101, 115, 32, 97, 114,
    101, 32, 100, 105, 115, 97, 98, 108, 101, 100>>

\* 'Gateway not responding'
GatewayNotResponding ==
  <<71, 97, 116, 101, 119, 97, 121, 32, 110, 111, 116, 32, 114, 101, 115,
    112, 111, 110, 100, 105, 110, 103>>

\* 'wss:'
WssScheme ==
  <<119, 115, 115, 58>>

\* 'ws:'
WsScheme ==
  <<119, 115, 58>>

\* '//'
SlashSlash ==
  <<47, 47>>

\* '/cdp?secret='
SecretQuery ==
  <<47, 99, 100, 112, 63, 115, 101, 99, 114, 101, 116, 61>>

\* The configured secret of /cdp, 's' with caron then 'ba'; a secret of the
\* same length that differs from it in the high byte of the first code unit;
\* and a shorter one.
CdpSecret == <<353, 98, 97>>

NearSecret == <<97, 98, 97>>

ShortSecret == <<98, 97>>

CdpRoutePaths == {CdpPath, VersionPath, ListPath, JsonPath}

DiscoveryPaths == {VersionPath, ListPath, JsonPath}

\* publicRoutes is not part of src/; the comment of lines 157-158 lists its
\* paths, of which the model takes one.
PublicPaths == {SandboxHealthPath}

OtherPaths ==
  {RootPath, WsPath, WsSlashPath, DevtoolsPath, SandboxHealthPath,
   ApiDevicesPath, AdminUiPath, DebugEnvPath}

HeaderSets ==
  [Upgrade : {Absent, Present(Websocket), Present(MixedCaseWebsocket), Present(H2c)},
   Connection : {Absent, Present(UpgradeValue), Present(KeepAlive)},
   SecWebSocketKey : {Absent, Present(HandshakeKey)},
   Cookie : {Present(CookieValue)}]

Targets ==
  {[path |-> p, searchParams |-> [token |-> Absent, secret |-> x]] :
     p \in CdpRoutePaths,
     x \in {Absent, Present(<<>>), Present(CdpSecret), Present(NearSecret),
            Present(ShortSecret)}}
  \cup
  {[path |-> p, searchParams |-> [token |-> x, secret |-> Absent]] :
     p \in OtherPaths,
     x \in {Absent, Present(<<>>), Present(GatewayToken), Present(OtherToken)}}

\* The requests fetch may receive: a GET without a body, to every target,
\* or a POST with one, to / and to /cdp.
Requests ==
  {[method |-> "GET", host |-> ExampleHost, path |-> t.path,
    searchParams |-> t.searchParams, headers |-> h, body |-> "null"] :
     t \in Targets, h \in HeaderSets}
  \cup
  {[method |-> "POST", host |-> ExampleHost, path |-> t.path,
    searchParams |-> t.searchParams, headers |-> h, body |-> "stream"] :
     t \in {x \in Targets : x.path \in {RootPath, CdpPath}}, h \in HeaderSets}

\* The bindings.  required stands for the variables validateRequiredEnv asks
\* for besides the gateway token (lines 77-99).
Envs ==
  {[MOLTBOT_GATEWAY_TOKEN |-> t, CDP_SECRET |-> c, BROWSER |-> br,
    DEV_MODE |-> f[1], DEBUG_ROUTES |-> f[2], required |-> f[3]] :
     t \in {Absent, Present(<<>>), Present(GatewayToken)},
     c \in {Absent, Present(<<>>), Present(CdpSecret)},
     br \in BOOLEAN,
     f \in {<<FALSE, TRUE, TRUE>>, <<TRUE, FALSE, FALSE>>, <<FALSE, FALSE, FALSE>>}}

\* String.prototype.toLowerCase, on the letters A-Z
ToLowerCase(str) ==
  [k \in 1..Len(str) |-> IF str[k] >= 65 /\ str[k] <= 90 THEN str[k] + 32 ELSE str[k]]

StartsWith(str, prefix) ==
  Len(str) >= Len(prefix) /\ SubSeq(str, 1, Len(prefix)) = prefix

\* A value that is there and is no empty string
Truthy(opt) == opt.has /\ opt.v # <<>>

\* encodeURIComponent: A-Z a-z 0-9 - _ . ! ~ * ' ( ) stay, every other
\* character becomes %XX for each byte of its UTF-8 encoding.
Unreserved(u) ==
  \/ u >= 65 /\ u <= 90
  \/ u >= 97 /\ u <= 122
  \/ u >= 48 /\ u <= 57
  \/ u \in {45, 95, 46, 33, 126, 42, 39, 40, 41}

HexDigit(n) == IF n < 10 THEN 48 + n ELSE 55 + n

PercentByte(byte) == <<37, HexDigit(byte \div 16), HexDigit(byte % 16)>>

RECURSIVE encodeURIComponentFrom(_, _)
encodeURIComponentFrom(str, i) ==
  IF i > Len(str) THEN <<>>
  ELSE IF Unreserved(str[i]) THEN <<str[i]>> \o encodeURIComponentFrom(str, i + 1)
  ELSE LET n == IF /\ IsHighSurrogate(str[i])
                   /\ i < Len(str)
                   /\ IsLowSurrogate(str[i + 1])
                THEN 2 ELSE 1
           bytes == TextEncode(SubSeq(str, i, i + n - 1))
       IN  Flatten([k \in 1..Len(bytes) |-> PercentByte(bytes[k])])
             \o encodeURIComponentFrom(str, i + n)

encodeURIComponent(str) == encodeURIComponentFrom(str, 1)

\* Mutant: only the Upgrade header is put back.
normalizeUpgradeOnly(req) ==
  IF ~req.headers.Upgrade.has /\ req.headers.SecWebSocketKey.has
  THEN [method |-> req.method, host |-> req.host, path |-> req.path,
        searchParams |-> req.searchParams,
        headers |-> [req.headers EXCEPT !.Upgrade = Present(Websocket)],
        body |-> req.body]
  ELSE req

\* fetch, lines 601-609: without an Upgrade header but with a
\* Sec-WebSocket-Key, the request is built again from its url, method and
\* body and from its headers with Upgrade and Connection set.
normalize(req) ==
  IF ~req.headers.Upgrade.has /\ req.headers.SecWebSocketKey.has
  THEN [method |-> req.method, host |-> req.host, path |-> req.path,
        searchParams |-> req.searchParams,
        headers |-> [req.headers EXCEPT !.Upgrade = Present(Websocket),
                                        !.Connection = Present(UpgradeValue)],
        body |-> req.body]
  ELSE req

\* lines 173-175 and 283-285 (and 326-328)
isWebSocket(req) ==
  \/ req.headers.Upgrade.has /\ ToLowerCase(req.headers.Upgrade.v) = Websocket
  \/ req.headers.SecWebSocketKey.has

\* Mutant: the configured token replaces whatever the URL carries.
withGatewayTokenAlways(searchParams, token) ==
  IF Truthy(token)
  THEN [searchParams EXCEPT !.token = Present(token.v)]
  ELSE searchParams

\* lines 199-201 and 373-377: searchParams.set('token', ...) if a token is
\* configured and the URL has no token parameter
withGatewayToken(searchParams, token) ==
  IF Truthy(token) /\ ~searchParams.token.has
  THEN [searchParams EXCEPT !.token = Present(token.v)]
  ELSE searchParams

\* lines 202-208: the headers of the request sent to the gateway
restoredHeaders(headers) ==
  LET withUpgrade ==
        IF ~headers.Upgrade.has
        THEN [headers EXCEPT !.Upgrade = Present(Websocket)] ELSE headers
  IN  IF \/ ~withUpgrade.Connection.has
         \/ ~Includes(ToLowerCase(withUpgrade.Connection.v), LowerCaseUpgrade)
      THEN [withUpgrade EXCEPT !.Connection = Present(UpgradeValue)]
      ELSE withUpgrade

\* lines 189-209: new Request(url.toString(), { headers }), a GET without body
proxiedRequest(req, e) ==
  [method |-> "GET", host |-> req.host,
   path |-> IF req.path = WsPath \/ req.path = WsSlashPath THEN RootPath
            ELSE req.path,
   searchParams |-> withGatewayToken(req.searchParams, e.MOLTBOT_GATEWAY_TOKEN),
   headers |-> restoredHeaders(req.headers),
   body |-> "null"]

\* lines 370-378: new Request(tokenUrl.toString(), request), or the request
relayedRequest(req, e) ==
  IF Truthy(e.MOLTBOT_GATEWAY_TOKEN) /\ ~req.searchParams.token.has
  THEN [method |-> req.method, host |-> req.host, path |-> req.path,
        searchParams |-> withGatewayToken(req.searchParams, e.MOLTBOT_GATEWAY_TOKEN),
        headers |-> req.headers, body |-> req.body]
  ELSE req

\* lines 333-341: new Request(containerUrl.toString()), the token parameter
\* deleted and set again if a token is configured
containerRequest(req, e) ==
  [method |-> "GET", host |-> req.host, path |-> req.path,
   searchParams |-> [req.searchParams EXCEPT
                       !.token = IF Truthy(e.MOLTBOT_GATEWAY_TOKEN)
                                 THEN Present(e.MOLTBOT_GATEWAY_TOKEN.v)
                                 ELSE Absent],
   headers |-> NoRequest.headers,
   body |-> "null"]

\* validateRequiredEnv (lines 69-103): the missing variables
validateRequiredEnv(e) ==
  (IF ~Truthy(e.MOLTBOT_GATEWAY_TOKEN) THEN {"MOLTBOT_GATEWAY_TOKEN"} ELSE {})
    \cup (IF ~e.required THEN {"required"} ELSE {})

Response(kind, status, body) == [kind |-> kind, status |-> status, body |-> body]

ErrorBody(error, hint) ==
  [error |-> error, hint |-> hint, webSocketDebuggerUrl |-> <<>>]

\* Mutant: any secret that is given is let in.
authorizedIfGiven(providedSecret, expectedSecret) == Truthy(providedSecret)

\* sync.ts, line 420 (and 469, 515, 560): the secret is there and
\* timingSafeEqual finds it equal to the configured one
authorized(providedSecret, expectedSecret) ==
  ~(~Truthy(providedSecret) \/ ~timingSafeEqual(providedSecret.v, expectedSecret))

\* sync.ts, lines 408-428 (and 458-478, 504-524, 549-569): the checks of the
\* secret and of the browser binding; kind "none" lets the request through
secretGate(req, e) ==
  IF ~Truthy(e.CDP_SECRET)
  THEN Response("not-configured", 503, ErrorBody(NotConfigured, SecretHint))
  ELSE IF ~authorized(req.searchParams.secret, e.CDP_SECRET.v)
  THEN Response("unauthorized", 401, ErrorBody(Unauthorized, <<>>))
  ELSE IF ~e.BROWSER
  THEN Response("no-browser", 503, ErrorBody(BrowserNotConfigured, BindingHint))
  ELSE NoResponse

\* sync.ts, lines 481-482 (and 527-528, 572-573); url.protocol is 'https:'
wsUrl(req) ==
  LET wsProtocol == IF TRUE THEN WssScheme ELSE WsScheme
  IN  wsProtocol \o SlashSlash \o req.host \o SecretQuery
        \o encodeURIComponent(req.searchParams.secret.v)

respond(r) == stage' = "done" /\ response' = r

next(st) == stage' = st /\ response' = response

InitRequest ==
  /\ harness = "off"
  /\ msg = <<>>
  /\ fed = 0
  /\ results = <<>>
  /\ queue = <<>>
  /\ pre = <<>>
  /\ last = NoOutcome
  /\ BridgeOff
  /\ RelayOff
  /\ CompareOff
  /\ CronOff
  /\ PoolOff
  /\ stage = "fetch"
  /\ inbound \in Requests
  /\ request = inbound
  /\ env \in Envs
  /\ accessUser = FALSE
  /\ response = NoResponse
  /\ backend = NoBackend

\* fetch (lines 597-612): the request, normalized, goes to app.fetch
fetch ==
  /\ stage = "fetch"
  /\ request' = normalize(request)
  /\ next("publicRoutes")
  /\ UNCHANGED <<inbound, env, accessUser, backend, compareVars, codecVars,
                 bridgeVars, relayVars,
                 cronVars, poolVars>>

\* app.route('/', publicRoutes) (line 159)
publicRoutes ==
  /\ stage = "publicRoutes"
  /\ IF request.method = "GET" /\ request.path \in PublicPaths
     THEN respond(Response("public", 200, NoBody))
     ELSE next("cdp")
  /\ UNCHANGED <<inbound, request, env, accessUser, backend, compareVars,
                 codecVars, bridgeVars, relayVars,
                 cronVars, poolVars>>

\* app.route('/cdp', cdp) (line 162; sync.ts, lines 397-586): GET /cdp asks
\* for the Upgrade header, then for the secret, and starts initCDPProxy on
\* the accepted pair; the three discovery routes ask for the secret and
\* answer with the connect URL.
cdp ==
  /\ stage = "cdp"
  /\ IF request.method = "GET" /\ request.path = CdpPath
     THEN IF ~(/\ request.headers.Upgrade.has
               /\ ToLowerCase(request.headers.Upgrade.v) = Websocket)
          THEN /\ respond(Response("upgrade-required", 200,
                                   ErrorBody(UpgradeRequired, ConnectHint)))
               /\ UNCHANGED backend
          ELSE IF secretGate(request, env).kind # "none"
          THEN respond(secretGate(request, env)) /\ UNCHANGED backend
          ELSE /\ respond(Response("upgrade", 101, NoBody))
               /\ backend' = [kind |-> "initCDPProxy", request |-> NoRequest]
     ELSE IF request.method = "GET" /\ request.path \in DiscoveryPaths
     THEN /\ IF secretGate(request, env).kind # "none"
             THEN respond(secretGate(request, env))
             ELSE respond(Response("document", 200,
                    [error |-> <<>>, hint |-> <<>>,
                     webSocketDebuggerUrl |-> wsUrl(request)]))
          /\ UNCHANGED backend
     ELSE next("wsProxy") /\ UNCHANGED backend
  /\ UNCHANGED <<inbound, request, env, accessUser, compareVars, codecVars,
                 bridgeVars, relayVars,
                 cronVars, poolVars>>

\* Mutant: the WebSocket proxy middleware hands every request on.
wsProxyFallsThrough ==
  /\ stage = "wsProxy"
  /\ next("envValidation")
  /\ UNCHANGED <<inbound, request, env, accessUser, backend, compareVars,
                 codecVars, bridgeVars, relayVars,
                 cronVars, poolVars>>

\* WebSocket proxy middleware (lines 168-214): a WebSocket request outside
\* /cdp gets the response of sandbox.wsConnect as it is, or 503 when
\* ensureMoltbotGateway throws.
wsProxy ==
  /\ stage = "wsProxy"
  /\ IF StartsWith(request.path, CdpPath) \/ ~isWebSocket(request)
     THEN next("envValidation") /\ UNCHANGED backend
     ELSE \E started \in BOOLEAN :
            IF ~started
            THEN /\ respond(Response("gateway-failed", 503,
                                     ErrorBody(GatewayFailed, <<>>)))
                 /\ UNCHANGED backend
            ELSE /\ backend' = [kind |-> "wsConnect",
                                request |-> proxiedRequest(request, env)]
                 /\ \E status \in {101, 500} :
                      respond(Response("passthrough", status, NoBody))
  /\ UNCHANGED <<inbound, request, env, accessUser, compareVars, codecVars,
                 bridgeVars, relayVars,
                 cronVars, poolVars>>

\* environment validation middleware (lines 221-257)
envValidation ==
  /\ stage = "envValidation"
  /\ IF StartsWith(request.path, DebugPrefix) \/ env.DEV_MODE
     THEN next("tokenAuth")
     ELSE IF validateRequiredEnv(env) # {}
     THEN respond(Response("config-error", 503,
                           ErrorBody(ConfigurationError, VariableHint)))
     ELSE next("tokenAuth")
  /\ UNCHANGED <<inbound, request, env, accessUser, backend, compareVars,
                 codecVars, bridgeVars, relayVars,
                 cronVars, poolVars>>

\* gateway token middleware (lines 263-275)
tokenAuth ==
  /\ stage = "tokenAuth"
  /\ accessUser' =
       IF /\ Truthy(request.searchParams.token)
          /\ Truthy(env.MOLTBOT_GATEWAY_TOKEN)
          /\ timingSafeEqual(request.searchParams.token.v,
                             env.MOLTBOT_GATEWAY_TOKEN.v)
       THEN TRUE ELSE accessUser
  /\ next("accessAuth")
  /\ UNCHANGED <<inbound, request, env, backend, compareVars, codecVars,
                 bridgeVars, relayVars,
                 cronVars, poolVars>>

\* Cloudflare Access middleware (lines 278-298); createAccessMiddleware is
\* not part of src/: it admits the request or answers itself.
accessAuth ==
  /\ stage = "accessAuth"
  /\ IF accessUser \/ isWebSocket(request)
     THEN next("protectedRoutes") /\ UNCHANGED accessUser
     ELSE \E admitted \in BOOLEAN :
            IF admitted
            THEN next("protectedRoutes") /\ accessUser' = TRUE
            ELSE /\ respond(Response("access-denied", 401,
                                     ErrorBody(Unauthorized, <<>>)))
                 /\ UNCHANGED accessUser
  /\ UNCHANGED <<inbound, request, env, backend, compareVars, codecVars,
                 bridgeVars, relayVars,
                 cronVars, poolVars>>

\* protected routes (lines 301-313): /api, /_admin, and /debug behind its
\* DEBUG_ROUTES check
protectedRoutes ==
  /\ stage = "protectedRoutes"
  /\ IF StartsWith(request.path, ApiPrefix)
     THEN respond(Response("api", 200, NoBody))
     ELSE IF StartsWith(request.path, AdminPrefix)
     THEN respond(Response("admin", 200, NoBody))
     ELSE IF StartsWith(request.path, DebugPrefix)
     THEN IF ~env.DEBUG_ROUTES
          THEN respond(Response("debug-disabled", 404,
                                ErrorBody(DebugDisabled, <<>>)))
          ELSE respond(Response("debug", 200, NoBody))
     ELSE next("catchAll")
  /\ UNCHANGED <<inbound, request, env, accessUser, backend, compareVars,
                 codecVars, bridgeVars, relayVars,
                 cronVars, poolVars>>

\* catch-all (lines 319-507): a request that is no WebSocket request is
\* fetched from the gateway; a WebSocket request is connected and, when the
\* gateway's response has a WebSocket, relayed with interception.
catchAll ==
  /\ stage = "catchAll"
  /\ IF ~isWebSocket(request)
     THEN /\ backend' = [kind |-> "containerFetch",
                         request |-> containerRequest(request, env)]
          /\ \E answered \in BOOLEAN :
               IF answered
               THEN respond(Response("proxied", 200, NoBody))
               ELSE respond(Response("not-responding", 503,
                                     ErrorBody(GatewayNotResponding, <<>>)))
     ELSE /\ backend' = [kind |-> "wsConnect",
                         request |-> relayedRequest(request, env)]
          /\ \E hasWebSocket \in BOOLEAN :
               IF hasWebSocket
               THEN respond(Response("relay", 101, NoBody))
               ELSE respond(Response("fallback", 500, NoBody))
  /\ UNCHANGED <<inbound, request, env, accessUser, compareVars, codecVars,
                 bridgeVars, relayVars,
                 cronVars, poolVars>>

NextRequest ==
  \/ fetch
  \/ publicRoutes
  \/ cdp
  \/ wsProxy
  \/ envValidation
  \/ tokenAuth
  \/ accessAuth
  \/ protectedRoutes
  \/ catchAll

SpecRequest == InitRequest /\ [][NextRequest]_vars

\* C22: the error-message transform.  On a host short enough for no
\* truncation, the reason the client gets for a container close with reason m
\* is: the token instruction, holding https://<host> and the token query
\* parameter, when m contains 'gateway token missing' or 'gateway token
\* mismatch', also when m contains 'pairing required' as well; otherwise the
\* pairing instruction, holding https://<host>/_admin/, when m contains
\* 'pairing required'; and m itself in every other case.
\* 'https://'
HttpsScheme ==
  <<104, 116, 116, 112, 115, 58, 47, 47>>

\* '?token='
TokenParameter ==
  <<63, 116, 111, 107, 101, 110, 61>>

MatchesTokenRule(m) == Includes(m, TokenMissing) \/ Includes(m, TokenMismatch)

TransformRules ==
  (containerEvent.kind = "close" /\ host \in {ExampleHost, Host51}) =>
    LET m == containerEvent.reason
        sent == serverCloses[1].reason
    IN  /\ MatchesTokenRule(m) =>
             /\ sent = InvalidTokenVisit \o host \o TokenQuery
             /\ Includes(sent, HttpsScheme \o host \o TokenParameter)
        /\ (~MatchesTokenRule(m) /\ Includes(m, PairingRequired)) =>
             /\ sent = PairingVisit \o host \o AdminPath
             /\ Includes(sent, HttpsScheme \o host \o AdminPath)
        /\ (~MatchesTokenRule(m) /\ ~Includes(m, PairingRequired)) => sent = m

\* the container closed with a reason matching both rules
TransformRulesWitness ==
  /\ containerEvent.kind = "close"
  /\ containerEvent.reason = BothReason
  /\ host = ExampleHost
  /\ Len(serverCloses) = 1
  /\ serverCloses[1].reason = InvalidTokenVisit \o ExampleHost \o TokenQuery

\* The number of the first k handled events whose peer handle was open.
RECURSIVE Delivered(_, _)
Delivered(handled, k) ==
  IF k = 0 THEN 0
  ELSE Delivered(handled, k - 1) + (IF handled[k].open THEN 1 ELSE 0)

RewrittenDocuments == {PairingDocument, MismatchDocument, BothDocument}

\* C23: relay forwarding.  Every frame handled while the peer handle is open
\* is forwarded exactly once; a container frame other than an error payload
\* whose error.message matches a rule of the transform reaches the client
\* byte-for-byte identical, and every client frame reaches the container
\* byte-for-byte identical.
ByteForByteForwarding ==
  /\ Len(toServer) = Delivered(containerIn, Len(containerIn))
  /\ Len(toContainer) = Delivered(serverIn, Len(serverIn))
  /\ \A k \in 1..Len(serverIn) :
       serverIn[k].open =>
         toContainer[Delivered(serverIn, k)] = serverIn[k].frame
  /\ \A k \in 1..Len(containerIn) :
       (/\ containerIn[k].open
        /\ containerIn[k].frame \notin {TextFrame(d) : d \in RewrittenDocuments}) =>
         toServer[Delivered(containerIn, k)] = containerIn[k].frame

\* C21: forwarding targets open handles only.  Whenever a message handler
\* of the bridged pair invokes a forwarding send (the client handler for a
\* text frame, the backend handler for a frame that completes a non-empty
\* message), the handle it sends on is open.
ForwardsOnlyToOpen ==
  [][/\ (/\ clientIn' # clientIn
         /\ clientIn'[Len(clientIn')].frame.kind = "text") => browserWs = "open"
     /\ (/\ browserIn' # browserIn
         /\ LET r == chunksToMessage(Append(browserChunks,
                                            browserIn'[Len(browserIn')].data))
            IN  r.kind = "msg" /\ r.val # <<>>) => clientWs = "open"]_vars

\* C24: per-direction ordering.  Every step handles at most one frame of one
\* direction and handles it completely: what it delivers is appended after
\* everything the direction delivered before.  In the relay the frame (as
\* intercepted, for the container's frames) is appended if the peer is open;
\* in the bridge all chunks of the client message are appended, with no
\* frame between them, and the message a backend frame completes is appended
\* to what the client got.
IsPrefix(a, b) == Len(a) <= Len(b) /\ a = SubSeq(b, 1, Len(a))

OneMore(log, log2) == Len(log2) = Len(log) + 1 /\ IsPrefix(log, log2)

OrderedStep ==
  /\ IsPrefix(toServer, toServer') /\ IsPrefix(toContainer, toContainer')
  /\ IsPrefix(toClient, toClient') /\ IsPrefix(toBrowser, toBrowser')
  /\ IsPrefix(serverIn, serverIn') /\ IsPrefix(containerIn, containerIn')
  /\ IsPrefix(clientIn, clientIn') /\ IsPrefix(browserIn, browserIn')
  /\ Len(serverIn') + Len(containerIn') + Len(clientIn') + Len(browserIn')
       <= Len(serverIn) + Len(containerIn) + Len(clientIn) + Len(browserIn) + 1
  /\ toContainer' # toContainer =>
       /\ OneMore(serverIn, serverIn')
       /\ toContainer' = Append(toContainer, serverIn'[Len(serverIn')].frame)
  /\ toServer' # toServer =>
       /\ OneMore(containerIn, containerIn')
       /\ toServer' = Append(toServer,
                        intercept(containerIn'[Len(containerIn')].frame, host))
  /\ SelectSeq(toBrowser', IsBinary) # SelectSeq(toBrowser, IsBinary) =>
       /\ OneMore(clientIn, clientIn')
       /\ LET cs == messageToChunks(clientIn'[Len(clientIn')].frame.data)
          IN  toBrowser' = toBrowser \o [k \in 1..Len(cs) |-> BinaryFrame(cs[k])]
  /\ toClient' # toClient =>
       /\ OneMore(browserIn, browserIn')
       /\ LET r == chunksToMessage(Append(browserChunks,
                                          browserIn'[Len(browserIn')].data))
          IN  r.kind = "msg" /\ toClient' = Append(toClient, TextFrame(r.val))

SameStrings(a, b) ==
  /\ Len(a) = Len(b)
  /\ \A k \in 1..Len(a) : a[k] = b[k]

ComparatorResult ==
  /\ comparison.pc = "returned" =>
       /\ comparison.verdict = SameStrings(comparison.a, comparison.b)
       /\ Len(comparison.a) # Len(comparison.b) => comparison.verdict = FALSE
  /\ comparison.pc # "off" =>
       timingSafeEqual(comparison.a, comparison.b)
         = SameStrings(comparison.a, comparison.b)

\* strings of full length that differ in the first position only, and only
\* in the high byte of its code unit, were found different
ComparatorResultWitness ==
  /\ comparison.pc = "returned"
  /\ comparison.a = <<97, 98, 97>>
  /\ comparison.b = <<353, 98, 97>>
  /\ comparison.verdict = FALSE

\* C28: the comparator's running time.  A call on strings of equal length
\* makes one pass of the loop per position, wherever the strings differ and
\* whether they differ at all; a call on strings of different length makes
\* none.  So any two calls on strings of one length make the same number of
\* passes.
ComparatorSteps ==
  /\ comparison.pc = "returned" =>
       comparison.steps = IF Len(comparison.a) = Len(comparison.b)
                          THEN Len(comparison.a) ELSE 0
  /\ comparison.pc = "loop" => comparison.steps = comparison.i

\* a call on strings that differ at the first position ran the whole loop
ComparatorStepsWitness ==
  /\ comparison.pc = "returned"
  /\ Len(comparison.a) = MaxSecretLen
  /\ Len(comparison.b) = MaxSecretLen
  /\ comparison.a[1] # comparison.b[1]
  /\ comparison.steps = MaxSecretLen

\* C25: the frame normalizer.  The request app.fetch gets from fetch: if the
\* inbound request has no Upgrade header but has a Sec-WebSocket-Key, it
\* carries Upgrade: websocket and Connection: Upgrade, its url, method, body
\* and other headers being those of the inbound request; otherwise it is the
\* inbound request.  fetch can always take its step, and normalizing the
\* normalized request changes nothing.
NormalizedRequest ==
  /\ stage = "fetch" => ENABLED fetch
  /\ stage \notin {"off", "fetch"} =>
       /\ IF ~inbound.headers.Upgrade.has /\ inbound.headers.SecWebSocketKey.has
          THEN /\ request.headers.Upgrade = Present(Websocket)
               /\ request.headers.Connection = Present(UpgradeValue)
               /\ request.headers.SecWebSocketKey = inbound.headers.SecWebSocketKey
               /\ request.headers.Cookie = inbound.headers.Cookie
               /\ request.host = inbound.host
               /\ request.path = inbound.path
               /\ request.searchParams = inbound.searchParams
               /\ request.method = inbound.method
               /\ request.body = inbound.body
          ELSE request = inbound
       /\ normalize(request) = request

\* a POST with a body, a handshake key and Connection: keep-alive, without
\* an Upgrade header, was normalized
NormalizedRequestWitness ==
  /\ stage = "publicRoutes"
  /\ inbound.method = "POST"
  /\ inbound.body = "stream"
  /\ ~inbound.headers.Upgrade.has
  /\ inbound.headers.SecWebSocketKey.has
  /\ inbound.headers.Connection = Present(KeepAlive)
  /\ request.headers.Connection = Present(UpgradeValue)

\* C26: the credential injector.  In the URL of a request handed to
\* sandbox.wsConnect, by the WebSocket proxy middleware or by the catch-all
\* relay, the token parameter is the configured gateway token if one is
\* configured and the request's URL had no token parameter; otherwise it is
\* as it was in the request's URL, present with its value or missing.
CredentialInjection ==
  backend.kind = "wsConnect" =>
    LET had == request.searchParams.token
        sent == backend.request.searchParams.token
        configured == env.MOLTBOT_GATEWAY_TOKEN
    IN  /\ (configured.has /\ configured.v # <<>> /\ ~had.has) =>
             sent = Present(configured.v)
        /\ (had.has \/ ~configured.has \/ configured.v = <<>>) => sent = had

\* the relay put the configured token on a URL that had none
CredentialInjectionWitness ==
  /\ response.kind = "relay"
  /\ ~request.searchParams.token.has
  /\ backend.request.searchParams.token = Present(GatewayToken)

\* C29: the secret gate of /cdp, as stated for every GET request a /cdp
\* route answers: an upgrade (101) or a document with a connect URL is
\* returned only if CDP_SECRET is configured and the secret parameter equals
\* it; with no configured secret the response is 503 with the configuration
\* hint, with a missing or different secret it is 401; and in these two cases
\* initCDPProxy is not started and no response member holds a secret.
ServedByCdp ==
  /\ stage = "done"
  /\ request.method = "GET"
  /\ request.path \in CdpRoutePaths

Echoes(body, secret) ==
  /\ secret # <<>>
  /\ \E member \in {body.error, body.hint, body.webSocketDebuggerUrl} :
       Includes(member, secret) \/ Includes(member, encodeURIComponent(secret))

SecretMatches ==
  /\ env.CDP_SECRET.has
  /\ env.CDP_SECRET.v # <<>>
  /\ request.searchParams.secret.has
  /\ SameStrings(request.searchParams.secret.v, env.CDP_SECRET.v)

GateOutcome ==
  /\ response.kind \in {"upgrade", "document"} => SecretMatches
  /\ response.kind = "upgrade" <=> response.status = 101
  /\ response.kind = "document" <=> response.body.webSocketDebuggerUrl # <<>>
  /\ ~(env.CDP_SECRET.has /\ env.CDP_SECRET.v # <<>>) =>
       response.status = 503 /\ response.body.hint = SecretHint
  /\ (env.CDP_SECRET.has /\ env.CDP_SECRET.v # <<>> /\ ~SecretMatches) =>
       response.status = 401
  /\ ~SecretMatches =>
       /\ backend.kind = "none"
       /\ ~Echoes(response.body, request.searchParams.secret.v)
       /\ ~Echoes(response.body, env.CDP_SECRET.v)

CarriesUpgrade ==
  /\ request.headers.Upgrade.has
  /\ ToLowerCase(request.headers.Upgrade.v) = Websocket

UpgradeControlFlow ==
  (stage = "done" /\ backend.kind = "wsConnect") => response.kind = "relay"

(***************************************************************************)
(* The scheduled handler (src/index.ts, lines 514-594) and syncToR2        *)
(* (src/gateway/sync.ts, lines 29-125).  findExistingMoltbotProcess,       *)
(* ensureMoltbotGateway, mountR2Storage and runCommandWithCleanup are not  *)
(* part of src/: what they return, and whether they throw where the caller *)
(* has a try block around them, is the environment's choice.  Commands run *)
(* in the sandbox; their output is a string of code units.                 *)
(***************************************************************************)
\* getSandbox(c.env.Sandbox, 'moltbot-v3', options): the instance every
\* request is proxied to (index.ts, line 148)
requestSandbox == "moltbot-v3"

\* getSandbox(env.Sandbox, 'moltbot-v2', options) (index.ts, line 520)
scheduledSandbox == "moltbot-v2"

\* 'FOUND'
FoundMark ==
  <<70, 79, 85, 78, 68>>

\* 'NOTFOUND'
NotFoundMark ==
  <<78, 79, 84, 70, 79, 85, 78, 68>>

\* 'MISSING'
MissingMark ==
  <<77, 73, 83, 83, 73, 78, 71>>

\* '/root/.openclaw/openclaw.json'
OpenclawJson ==
  <<47, 114, 111, 111, 116, 47, 46, 111, 112, 101, 110, 99, 108, 97, 119,
    47, 111, 112, 101, 110, 99, 108, 97, 119, 46, 106, 115, 111, 110>>

\* '/root/.clawdbot/clawdbot.json'
ClawdbotJson ==
  <<47, 114, 111, 111, 116, 47, 46, 99, 108, 97, 119, 100, 98, 111, 116,
    47, 99, 108, 97, 119, 100, 98, 111, 116, 46, 106, 115, 111, 110>>

\* an earlier run's `date -Iseconds`: '2026-01-01T03:00:00+00:00\n'
EarlierStamp ==
  <<50, 48, 50, 54, 45, 48, 49, 45, 48, 49, 84, 48, 51, 58, 48, 48, 58,
    48, 48, 43, 48, 48, 58, 48, 48, 10>>

\* this run's: '2026-01-01T03:05:00+00:00\n'
ThisRunStamp ==
  <<50, 48, 50, 54, 45, 48, 49, 45, 48, 49, 84, 48, 51, 58, 48, 53, 58,
    48, 48, 43, 48, 48, 58, 48, 48, 10>>

\* 'Bun'
BunName ==
  <<66, 117, 110>>

\* 'openclaw'
OpenclawName ==
  <<111, 112, 101, 110, 99, 108, 97, 119>>

\* what the default server answers
DefaultPage ==
  <<87, 101, 108, 99, 111, 109, 101, 32, 116, 111, 32, 66, 117, 110, 33>>

\* what the gateway answers
GatewayPage ==
  <<60, 116, 105, 116, 108, 101, 62, 111, 112, 101, 110, 99, 108, 97, 119,
    60, 47, 116, 105, 116, 108, 101, 62>>

\* a gateway page that names both
GatewayOnBunPage ==
  <<111, 112, 101, 110, 99, 108, 97, 119, 32, 103, 97, 116, 101, 119, 97,
    121, 32, 40, 66, 117, 110, 41>>

LineFeed == <<10>>

\* syncParts (sync.ts, lines 83-98), joined with ' && '
syncParts ==
  <<"rm -f .last-sync", "mkdir -p", "tar config", "cp config", "tar workspace",
    "cp workspace", "tar skills", "cp skills", "rm -f /tmp archives",
    "date -Iseconds > .last-sync">>

\* String.prototype.trim, on the white space a command prints
WhiteSpace == {9, 10, 13, 32}

RECURSIVE TrimStart(_)
TrimStart(str) ==
  IF str # <<>> /\ Head(str) \in WhiteSpace THEN TrimStart(Tail(str)) ELSE str

RECURSIVE TrimEnd(_)
TrimEnd(str) ==
  IF str # <<>> /\ str[Len(str)] \in WhiteSpace
  THEN TrimEnd(SubSeq(str, 1, Len(str) - 1)) ELSE str

Trim(str) == TrimEnd(TrimStart(str))

\* lastSync.match(/^\d{4}-\d{2}-\d{2}/) (sync.ts, line 108)
IsDigit(u) == u >= 48 /\ u <= 57

MatchesDate(str) ==
  /\ Len(str) >= 10
  /\ \A k \in {1, 2, 3, 4, 6, 7, 9, 10} : IsDigit(str[k])
  /\ str[5] = 45
  /\ str[8] = 45

\* `ls <path> 2>/dev/null && echo FOUND || echo NOTFOUND`
lsOutput(exists, path) ==
  IF exists THEN path \o LineFeed \o FoundMark \o LineFeed
  ELSE NotFoundMark \o LineFeed

\* `cat .last-sync 2>/dev/null || echo MISSING`
catOutput(file) == IF file.has THEN file.v ELSE MissingMark \o LineFeed

\* Mutant: the mark is looked for without excluding NOTFOUND.
foundAnyMark(stdout) == Includes(stdout, FoundMark)

\* sync.ts, lines 53 and 58
found(stdout) == Includes(stdout, FoundMark) /\ ~Includes(stdout, NotFoundMark)

\* index.ts, line 564
defaultServer(body) == Includes(body, BunName) /\ ~Includes(body, OpenclawName)

HealthBodies == {DefaultPage, GatewayPage, GatewayOnBunPage, <<>>}

\* containerFetch or text() throws, or the body is read
HealthOutcomes ==
  {[kind |-> "threw", body |-> <<>>]} \cup {[kind |-> "body", body |-> b] : b \in HealthBodies}

Failure(error) ==
  [kind |-> "returned", success |-> FALSE, lastSync |-> <<>>, error |-> error]

Success(lastSync) ==
  [kind |-> "returned", success |-> TRUE, lastSync |-> lastSync, error |-> <<>>]

\* sync.ts, lines 107-117
timestampResult(stdout) ==
  LET lastSync == Trim(stdout)
  IN  IF lastSync # <<>> /\ MatchesDate(lastSync) /\ ~Includes(lastSync, MissingMark)
      THEN Success(lastSync)
      ELSE Failure("Sync failed")

\* .last-sync after a chain of which the first n commands succeeded: the
\* first removes it, the last writes it; a failed redirection of the last
\* may leave an empty file.
afterChain(file, n) ==
  IF n = 0 THEN {file}
  ELSE IF n = Len(syncParts) THEN {Present(ThisRunStamp)}
  ELSE IF n = Len(syncParts) - 1 THEN {Absent, Present(<<>>)}
  ELSE {Absent}

StorageValues == {Absent, Present(<<>>), Present(<<107>>)}

InitCron ==
  /\ harness = "off"
  /\ msg = <<>>
  /\ fed = 0
  /\ results = <<>>
  /\ queue = <<>>
  /\ pre = <<>>
  /\ last = NoOutcome
  /\ BridgeOff
  /\ RelayOff
  /\ CompareOff
  /\ RequestOff
  /\ PoolOff
  /\ cronPc = "scheduled"
  /\ sandbox = "null"
  /\ storage \in [R2_ACCESS_KEY_ID : StorageValues,
                  R2_SECRET_ACCESS_KEY : StorageValues,
                  CF_ACCOUNT_ID : StorageValues]
  /\ files \in [openclaw : BOOLEAN, clawdbot : BOOLEAN]
  /\ lastSyncFile \in {Absent, Present(EarlierStamp)}
  /\ gatewayProcess = "unknown"
  /\ health = [kind |-> "none", body |-> <<>>]
  /\ needsRestart = FALSE
  /\ cronCalls = <<>>
  /\ mounted = "unknown"
  /\ configDir = "null"
  /\ chain = NoChain
  /\ returned = NoResult

\* a call scheduled made, and whether it threw
Call(name, threw) == [name |-> name, threw |-> threw]

cronOthers == <<codecVars, bridgeVars, relayVars, compareVars, requestVars, poolVars>>

\* scheduled, lines 519-550: the sandbox is taken; the process count and the
\* cleanup are logged, each in its try block.
scheduled ==
  /\ cronPc = "scheduled"
  /\ sandbox' = scheduledSandbox
  /\ cronPc' = "find"
  /\ UNCHANGED <<storage, files, lastSyncFile, gatewayProcess, health,
                 needsRestart, cronCalls, mounted, configDir, chain, returned,
                 cronOthers>>

\* lines 552-553
findProcess ==
  /\ cronPc = "find"
  /\ \E process \in {"null", "process"} :
       /\ gatewayProcess' = process
       /\ needsRestart' = (process = "null")
       /\ cronPc' = IF process = "null" THEN "restart" ELSE "health"
  /\ UNCHANGED <<sandbox, storage, files, lastSyncFile, health, cronCalls,
                 mounted, configDir, chain, returned, cronOthers>>

\* lines 556-572: the health request, and lines 574 and 585
healthCheck ==
  /\ cronPc = "health"
  /\ \E outcome \in HealthOutcomes :
       /\ health' = outcome
       /\ needsRestart' = IF outcome.kind = "threw" THEN TRUE
                          ELSE IF defaultServer(outcome.body) THEN TRUE
                          ELSE needsRestart
  /\ cronPc' = IF needsRestart' THEN "restart" ELSE "sync"
  /\ UNCHANGED <<sandbox, storage, files, lastSyncFile, gatewayProcess,
                 cronCalls, mounted, configDir, chain, returned, cronOthers>>

\* Mutant: the handler does not return after the restart.
restartAndGoOn ==
  /\ cronPc = "restart"
  /\ \E threw \in BOOLEAN :
       cronCalls' = Append(cronCalls, Call("ensureMoltbotGateway", threw))
  /\ cronPc' = "sync"
  /\ UNCHANGED <<sandbox, storage, files, lastSyncFile, gatewayProcess, health,
                 needsRestart, mounted, configDir, chain, returned, cronOthers>>

\* lines 574-583: ensureMoltbotGateway in a try block, then return
restart ==
  /\ cronPc = "restart"
  /\ \E threw \in BOOLEAN :
       cronCalls' = Append(cronCalls, Call("ensureMoltbotGateway", threw))
  /\ cronPc' = "done"
  /\ UNCHANGED <<sandbox, storage, files, lastSyncFile, gatewayProcess, health,
                 needsRestart, mounted, configDir, chain, returned, cronOthers>>

\* index.ts, line 586, and sync.ts, lines 33-36
syncToR2 ==
  /\ cronPc = "sync"
  /\ cronCalls' = Append(cronCalls, Call("syncToR2", FALSE))
  /\ IF \/ ~Truthy(storage.R2_ACCESS_KEY_ID)
        \/ ~Truthy(storage.R2_SECRET_ACCESS_KEY)
        \/ ~Truthy(storage.CF_ACCOUNT_ID)
     THEN returned' = Failure("R2 storage is not configured") /\ cronPc' = "done"
     ELSE returned' = returned /\ cronPc' = "mount"
  /\ UNCHANGED <<sandbox, storage, files, lastSyncFile, gatewayProcess, health,
                 needsRestart, mounted, configDir, chain, cronOthers>>

\* sync.ts, lines 39-42
mountR2Storage ==
  /\ cronPc = "mount"
  /\ \E ok \in BOOLEAN :
       /\ mounted' = (IF ok THEN "mounted" ELSE "failed")
       /\ IF ok
          THEN returned' = returned /\ cronPc' = "checkNew"
          ELSE returned' = Failure("Failed to mount R2 storage") /\ cronPc' = "done"
  /\ UNCHANGED <<sandbox, storage, files, lastSyncFile, gatewayProcess, health,
                 needsRestart, cronCalls, configDir, chain, cronOthers>>

\* sync.ts, lines 47-55 and 70-78: the check for openclaw.json
checkNew ==
  /\ cronPc = "checkNew"
  /\ \E threw \in BOOLEAN :
       IF threw
       THEN /\ returned' = Failure("Failed to verify source files")
            /\ cronPc' = "done"
            /\ configDir' = "/root/.openclaw"
       ELSE /\ returned' = returned
            /\ configDir' = "/root/.openclaw"
            /\ cronPc' = IF found(lsOutput(files.openclaw, OpenclawJson))
                         THEN "chain" ELSE "checkLegacy"
  /\ UNCHANGED <<sandbox, storage, files, lastSyncFile, gatewayProcess, health,
                 needsRestart, cronCalls, mounted, chain, cronOthers>>

\* sync.ts, lines 56-69 and 70-78: the check for clawdbot.json
checkLegacy ==
  /\ cronPc = "checkLegacy"
  /\ \E threw \in BOOLEAN :
       IF threw
       THEN /\ returned' = Failure("Failed to verify source files")
            /\ cronPc' = "done"
            /\ configDir' = configDir
       ELSE IF found(lsOutput(files.clawdbot, ClawdbotJson))
       THEN /\ returned' = returned
            /\ configDir' = "/root/.clawdbot"
            /\ cronPc' = "chain"
       ELSE /\ returned' = Failure("Sync aborted: no config file found")
            /\ configDir' = configDir
            /\ cronPc' = "done"
  /\ UNCHANGED <<sandbox, storage, files, lastSyncFile, gatewayProcess, health,
                 needsRestart, cronCalls, mounted, chain, cronOthers>>

\* sync.ts, lines 101-105 and 118-124: the chain runs in the sandbox, its
\* commands one after the other until one fails; the call may throw.
runChain ==
  /\ cronPc = "chain"
  /\ \E n \in 0..Len(syncParts) :
       /\ chain' = [ran |-> TRUE, done |-> n]
       /\ lastSyncFile' \in afterChain(lastSyncFile, n)
  /\ \E threw \in BOOLEAN :
       IF threw
       THEN returned' = Failure("Sync error") /\ cronPc' = "done"
       ELSE returned' = returned /\ cronPc' = "timestamp"
  /\ UNCHANGED <<sandbox, storage, files, gatewayProcess, health, needsRestart,
                 cronCalls, mounted, configDir, cronOthers>>

\* sync.ts, lines 106-124: the timestamp is read back
readTimestamp ==
  /\ cronPc = "timestamp"
  /\ \E threw \in BOOLEAN :
       returned' = IF threw THEN Failure("Sync error")
                   ELSE timestampResult(catOutput(lastSyncFile))
  /\ cronPc' = "done"
  /\ UNCHANGED <<sandbox, storage, files, lastSyncFile, gatewayProcess, health,
                 needsRestart, cronCalls, mounted, configDir, chain, cronOthers>>

NextCron ==
  \/ scheduled
  \/ findProcess
  \/ healthCheck
  \/ restart
  \/ syncToR2
  \/ mountR2Storage
  \/ checkNew
  \/ checkLegacy
  \/ runChain
  \/ readTimestamp

SpecCron == InitCron /\ [][NextCron]_vars

(***************************************************************************)
(* Several chunked pairs in one isolate.  Each accepted upgrade starts its *)
(* own initCDPProxy (sync.ts, lines 431-443), which acquires a session,    *)
(* dials the backend with it and calls bridgeWebSockets; browserChunks,    *)
(* pingInterval and cleanup are locals of that call (lines 258-275), and   *)
(* the handlers it registers close over them and over its two handles.     *)
(* The session endpoint hands out a new session with every acquisition.    *)
(***************************************************************************)
PairIds == {"p", "q"}

NoPair ==
  [pc |-> "none", clientWs |-> "none", browserWs |-> "none", sessionId |-> 0,
   browserChunks |-> <<>>, pingInterval |-> "null", browserIn |-> <<>>,
   toClient |-> <<>>]

InitPool ==
  /\ harness = "off"
  /\ msg = <<>>
  /\ fed = 0
  /\ results = <<>>
  /\ queue = <<>>
  /\ pre = <<>>
  /\ last = NoOutcome
  /\ BridgeOff
  /\ RelayOff
  /\ CompareOff
  /\ RequestOff
  /\ CronOff
  /\ pairs = [p \in PairIds |-> NoPair]
  /\ issued = 0
  /\ dialled = <<>>

poolOthers == <<codecVars, bridgeVars, relayVars, compareVars, requestVars, cronVars>>

\* Mutant: one timer for the isolate; cleanup of a pair clears it for all.
cleanupShared(ps, p) == [x \in PairIds |-> [ps[x] EXCEPT !.pingInterval = "null"]]

\* cleanup (lines 270-275) of the pair p
cleanupOf(ps, p) == [ps EXCEPT ![p].pingInterval = "null"]

\* cdp.get('/'), lines 431-443: the pair is created, the server end
\* accepted and initCDPProxy started
upgradeOf(p) ==
  /\ pairs[p].pc = "none"
  /\ pairs' = [pairs EXCEPT ![p].pc = "acquiring", ![p].clientWs = "open"]
  /\ UNCHANGED <<issued, dialled, poolOthers>>

\* acquireSession (lines 212-229) returns the id of a new session
acquireSessionOf(p) ==
  /\ pairs[p].pc = "acquiring"
  /\ issued' = issued + 1
  /\ pairs' = [pairs EXCEPT ![p].pc = "dialing", ![p].sessionId = issued + 1]
  /\ UNCHANGED <<dialled, poolOthers>>

\* acquireSession throws (line 223): initCDPProxy closes the client (line 370)
acquireFailsOf(p) ==
  /\ pairs[p].pc = "acquiring"
  /\ pairs' = [pairs EXCEPT ![p].pc = "failed",
                            ![p].clientWs = close(pairs[p].clientWs, 1011)]
  /\ UNCHANGED <<issued, dialled, poolOthers>>

\* connectToBrowser (lines 234-248) and bridgeWebSockets (lines 253-349)
connectToBrowserOf(p) ==
  /\ pairs[p].pc = "dialing"
  /\ dialled' = Append(dialled, pairs[p].sessionId)
  /\ pairs' = [pairs EXCEPT ![p].pc = "bridging", ![p].browserWs = "open",
                            ![p].browserChunks = <<>>,
                            ![p].pingInterval = "set"]
  /\ UNCHANGED <<issued, poolOthers>>

\* backend message handler (lines 293-304) of the pair p
browserMessageOf(p) ==
  /\ pairs[p].pc = "bridging"
  /\ pairs[p].browserWs \in {"open", "closing"}
  /\ Len(pairs[p].browserIn) < MaxPoolFrames
  /\ \E d \in BrowserFrames :
       LET r == chunksToMessage(Append(pairs[p].browserChunks, d))
       IN  pairs' = [pairs EXCEPT
                       ![p].browserIn = Append(@, BinaryFrame(d)),
                       ![p].browserChunks = r.chunks,
                       ![p].toClient = IF r.kind = "msg" /\ r.val # <<>>
                                       THEN send(pairs[p].clientWs, @, TextFrame(r.val))
                                       ELSE @]
  /\ UNCHANGED <<issued, dialled, poolOthers>>

\* client close and error handlers (lines 307-326) of the pair p
clientGoneOf(p) ==
  /\ pairs[p].pc = "bridging"
  /\ pairs[p].clientWs \in {"open", "closing"}
  /\ \E code \in {1000, 1011} :
       pairs' = [cleanupOf(pairs, p) EXCEPT
                   ![p].clientWs = "closed",
                   ![p].browserWs = close(pairs[p].browserWs, code)]
  /\ UNCHANGED <<issued, dialled, poolOthers>>

\* backend close and error handlers (lines 329-348) of the pair p
browserGoneOf(p) ==
  /\ pairs[p].pc = "bridging"
  /\ pairs[p].browserWs \in {"open", "closing"}
  /\ \E code \in {1000, 1011} :
       pairs' = [cleanupOf(pairs, p) EXCEPT
                   ![p].browserWs = "closed",
                   ![p].clientWs = close(pairs[p].clientWs, code)]
  /\ UNCHANGED <<issued, dialled, poolOthers>>

NextPool ==
  \E p \in PairIds :
    \/ upgradeOf(p)
    \/ acquireSessionOf(p)
    \/ acquireFailsOf(p)
    \/ connectToBrowserOf(p)
    \/ browserMessageOf(p)
    \/ clientGoneOf(p)
    \/ browserGoneOf(p)

SpecPool == InitPool /\ [][NextPool]_vars

\* The inbound direction alone: a pair is wired, then backend frames are
\* handled, and either side may close.
NextInbound ==
  \/ AcquireOk
  \/ DialOk
  \/ BrowserMessage
  \/ ClientClose
  \/ BrowserClose

SpecInbound == Init /\ [][NextInbound]_vars

\* C31: pair lifetime.  Whenever the client handle of a chunked-path
\* connection is closed, the backend handle is not left open with the
\* keepalive timer still running on it.
NoOrphanedBackend ==
  ~(clientWs = "closed" /\ browserWs = "open" /\ pingInterval = "set")

\* C33: every completed message is forwarded.  Whenever the decoder completes
\* a message on a backend frame handled while the client handle is open, the
\* step appends exactly one text frame, holding that message, to what the
\* client got; the zero-length message is no exception.
EveryCompletionForwarded ==
  [][(/\ browserIn' # browserIn
      /\ clientWs = "open"
      /\ chunksToMessage(Append(browserChunks,
                                browserIn'[Len(browserIn')].data)).kind = "msg") =>
       toClient' = Append(toClient,
                     TextFrame(chunksToMessage(Append(browserChunks,
                                 browserIn'[Len(browserIn')].data)).val))]_vars

\* C34: buffer invariant.  The backend frames received so far being the
\* start of a concatenation of well-formed encoded messages, the reassembly
\* buffer is empty or holds the first chunks, not all of them, of exactly one
\* message, the one the stream is in the middle of; no completed message is
\* left in it; and the payload bytes it holds stay below the length its first
\* chunk declares.
\* Splits(frames, n): the ways the first n frames split into whole messages
\* followed by the first chunks (held) of one more, rest being its chunks
\* still to come.
RECURSIVE Splits(_, _)
Splits(frames, n) ==
  IF n = 0 THEN {[held |-> <<>>, rest |-> <<>>]}
  ELSE LET d == frames[n].data
           before == Splits(frames, n - 1)
           continued == {[held |-> IF Len(s.rest) = 1 THEN <<>> ELSE Append(s.held, d),
                          rest |-> Tail(s.rest)] :
                           s \in {t \in before : t.rest # <<>> /\ Head(t.rest) = d}}
           started == {[held |-> IF Len(messageToChunks(m)) = 1 THEN <<>> ELSE <<d>>,
                        rest |-> Tail(messageToChunks(m))] :
                         m \in {k \in BridgeMsgs : Head(messageToChunks(k)) = d}}
       IN  continued \cup (IF \E t \in before : t.rest = <<>> THEN started ELSE {})

WellFormedStream == Splits(browserIn, Len(browserIn)) # {}

BufferInvariant ==
  WellFormedStream =>
    /\ \E s \in Splits(browserIn, Len(browserIn)) : browserChunks = s.held
    /\ Cardinality({s.held : s \in Splits(browserIn, Len(browserIn))}) = 1
    /\ chunksToMessage(browserChunks).kind = "null"
    /\ browserChunks # <<>> =>
         /\ Len(browserChunks[1]) >= HEADER_SIZE
         /\ Len(Flatten(browserChunks)) - HEADER_SIZE < getUint32(browserChunks[1])
         /\ \E m \in BridgeMsgs :
              /\ Len(browserChunks) < Len(messageToChunks(m))
              /\ browserChunks = SubSeq(messageToChunks(m), 1, Len(browserChunks))

\* a one-chunk message was completed and the first chunk of a longer message
\* is held
BufferInvariantWitness ==
  /\ Len(browserIn) = 2
  /\ WellFormedStream
  /\ getUint32(browserIn[1].data) <= FIRST_CHUNK_DATA_SIZE
  /\ browserChunks = <<browserIn[2].data>>

\* C35: keepalive frames do not split a message.  What the backend got is a
\* sequence of runs, each either one liveness frame or all the chunks of one
\* client message, the messages in the order they came: a liveness frame
\* stands only before the first or after the last chunk of a message, and the
\* chunks of two messages are never interleaved.
RECURSIVE WholeRuns(_, _)
WholeRuns(log, history) ==
  IF log = <<>> THEN ExpectedChunks(history) = <<>>
  ELSE IF Head(log) = Ping THEN WholeRuns(Tail(log), history)
  ELSE /\ history # <<>>
       /\ LET cs == ExpectedChunks(<<Head(history)>>)
          IN  /\ Len(cs) <= Len(log)
              /\ SubSeq(log, 1, Len(cs)) = cs
              /\ WholeRuns(SubSeq(log, Len(cs) + 1, Len(log)), Tail(history))

ContiguousChunks == WholeRuns(toBrowser, clientIn)

\* two messages of two chunks each went out with a liveness frame between them
ContiguousChunksWitness ==
  /\ Len(clientIn) = 2
  /\ \A k \in 1..2 : /\ clientIn[k].frame.kind = "text"
                     /\ Len(messageToChunks(clientIn[k].frame.data)) >= 2
  /\ Len(toBrowser) = 5
  /\ toBrowser[3] = Ping

\* C36: access gate of the protected routes.  A request is answered by the
\* /api, /_admin or /debug handlers, or fetched from the gateway by the HTTP
\* branch of the catch-all, only with accessUser set, which is set only for a
\* token parameter equal to the configured gateway token or by the Access
\* middleware admitting the request; and such a request is no WebSocket
\* request, so the skip of the Access middleware was not taken for it.
GatedKinds == {"api", "admin", "debug", "proxied", "not-responding"}

TokenMatches ==
  /\ Truthy(request.searchParams.token)
  /\ Truthy(env.MOLTBOT_GATEWAY_TOKEN)
  /\ request.searchParams.token.v = env.MOLTBOT_GATEWAY_TOKEN.v

AccessGate ==
  /\ response.kind \in GatedKinds => accessUser /\ ~isWebSocket(request)
  /\ (accessUser /\ isWebSocket(request)) => TokenMatches
  /\ (stage \in {"fetch", "publicRoutes", "cdp", "wsProxy", "envValidation", "tokenAuth"}) =>
       ~accessUser

\* a request without a token was admitted by the Access middleware and
\* answered by an /api handler
AccessGateWitness ==
  /\ response.kind = "api"
  /\ ~request.searchParams.token.has
  /\ accessUser

\* C37: one sandbox.  The instance the scheduled handler checks, restarts
\* and backs up is the instance requests are proxied to.
SameSandbox == sandbox # "null" => sandbox = requestSandbox

\* C38: what a success means.  syncToR2 returns success only after a chain of
\* which every command succeeded in this run, and the timestamp it returns is
\* the one this run wrote, never that of an earlier run.
SuccessIsThisRun ==
  returned.success =>
    /\ chain.ran
    /\ chain.done = Len(syncParts)
    /\ returned.lastSync = Trim(ThisRunStamp)

\* C39: no backup from an unverified source.  The chain runs only with the
\* three storage bindings set, the bucket mounted and the configuration file
\* of the directory it archives found; without one of them, or with a source
\* check that threw, syncToR2 returns a failure and the chain has not run.
Called(name) == \E k \in 1..Len(cronCalls) : cronCalls[k].name = name

StorageConfigured ==
  /\ Truthy(storage.R2_ACCESS_KEY_ID)
  /\ Truthy(storage.R2_SECRET_ACCESS_KEY)
  /\ Truthy(storage.CF_ACCOUNT_ID)

VerifiedSource ==
  /\ chain.ran =>
       /\ StorageConfigured
       /\ mounted = "mounted"
       /\ \/ configDir = "/root/.openclaw" /\ files.openclaw
          \/ configDir = "/root/.clawdbot" /\ files.clawdbot
  /\ (/\ cronPc = "done"
      /\ Called("syncToR2")
      /\ \/ ~StorageConfigured
         \/ mounted = "failed"
         \/ returned.error = "Failed to verify source files"
         \/ ~files.openclaw /\ ~files.clawdbot) =>
       /\ returned.kind = "returned"
       /\ ~returned.success
       /\ ~chain.ran

\* neither file was found: the sync was aborted before the chain
VerifiedSourceWitness ==
  /\ cronPc = "done"
  /\ StorageConfigured
  /\ mounted = "mounted"
  /\ returned.error = "Sync aborted: no config file found"
  /\ ~chain.ran

\* C40: cron ordering.  syncToR2 is called only after a gateway process was
\* found and the health request gave a body that is not the default server's,
\* and then no restart is attempted; with the process missing, the health
\* request thrown or the default server answering, ensureMoltbotGateway is
\* called once and the handler returns without a sync, whether or not the
\* restart threw.
CronOrdering ==
  /\ Called("syncToR2") =>
       /\ gatewayProcess = "process"
       /\ health.kind = "body"
       /\ ~defaultServer(health.body)
       /\ ~Called("ensureMoltbotGateway")
       /\ Len(cronCalls) = 1
  /\ (/\ cronPc = "done"
      /\ \/ gatewayProcess = "null"
         \/ health.kind = "threw"
         \/ health.kind = "body" /\ defaultServer(health.body)) =>
       /\ Len(cronCalls) = 1
       /\ cronCalls[1].name = "ensureMoltbotGateway"
       /\ ~chain.ran
       /\ returned = NoResult
  /\ gatewayProcess = "null" => health.kind = "none"

\* the default server answered, the restart threw, and the handler returned
CronOrderingWitness ==
  /\ cronPc = "done"
  /\ health.kind = "body"
  /\ health.body = DefaultPage
  /\ cronCalls = <<Call("ensureMoltbotGateway", TRUE)>>

\* C32: pair isolation.  With two pairs bridged at once, the buffer of a pair
\* and what its client got are what a decoder fed with the backend frames of
\* that pair alone gives; two pairs never have the same session id and the
\* backend is dialled exactly once with each id in use; and a step of one
\* pair, a close or error of one of its handles included, changes nothing of
\* the other pair: neither its timer nor its handles.
RECURSIVE BufferAfter(_, _, _)
BufferAfter(frames, i, buf) ==
  IF i > Len(frames) THEN buf
  ELSE BufferAfter(frames, i + 1, chunksToMessage(Append(buf, frames[i].data)).chunks)

Occurrences(seq, x) == Cardinality({k \in 1..Len(seq) : seq[k] = x})

OwnState ==
  /\ \A p \in PairIds :
       /\ pairs[p].browserChunks = BufferAfter(pairs[p].browserIn, 1, <<>>)
       /\ IsSubseq([k \in 1..Len(pairs[p].toClient) |-> pairs[p].toClient[k].data],
                   Yields(pairs[p].browserIn, 1, <<>>))
       /\ pairs[p].clientWs = "open" =>
            [k \in 1..Len(pairs[p].toClient) |-> pairs[p].toClient[k].data]
              = SelectSeq(Yields(pairs[p].browserIn, 1, <<>>), LAMBDA m : m # <<>>)
       /\ Occurrences(dialled, pairs[p].sessionId) =
            (IF pairs[p].pc = "bridging" THEN 1 ELSE 0)
  /\ \A p, q \in PairIds :
       (p # q /\ pairs[p].sessionId # 0) => pairs[p].sessionId # pairs[q].sessionId

OwnStep == \A p, q \in PairIds : (p # q /\ pairs'[p] # pairs[p]) => pairs'[q] = pairs[q]

PairIsolation == []OwnState /\ [][OwnStep]_vars

\* both pairs are bridged, one holds a first chunk, and the client of the
\* other, which got a message, has closed
PairIsolationWitness ==
  /\ \A p \in PairIds : pairs[p].pc = "bridging"
  /\ \E p, q \in PairIds :
       /\ p # q
       /\ pairs[p].browserChunks # <<>>
       /\ pairs[p].pingInterval = "set"
       /\ pairs[q].toClient # <<>>
       /\ pairs[q].clientWs = "closed"

====
